---- MODULE Spec2Model ----
(***************************************************************************)
(* Resilient API access core of qortal-mcp-server: the node-failover pool  *)
(* (NodePool), the pooled request executor with its response processor and *)
(* error classifier (QortalApiClient), and the token bucket (TokenBucket). *)
(*                                                                         *)
(* Time is time.monotonic() in whole ticks.  A URL is the position of the  *)
(* node in the configured (deduplicated) order, so URL 1 is the primary.   *)
(***************************************************************************)
EXTENDS Integers, Sequences, FiniteSets, TLC

\* ---------------------------------------------------------------- bounds
NumNodes == 2
NumReqs == 2
MaxTime == 3
Cooldown == 2
MaxRate == 3
MaxCapacity == 5
\* tokens are counted in units of 1/TokenUnit token; a rate is in units per tick
TokenUnit == 2
NumKeys == 2
NumCallers == 2
MaxCloses == 2
NumClosers == 2
MaxIdle == 4
MaxCalls == 3

\* Python's None for an Optional[float] timestamp (_NodeEntry.last_failure).
NoTime == -1

Nodes == 1..NumNodes
Reqs == 1..NumReqs
Times == 0..MaxTime

VARIABLES
    now,                \* time.monotonic()
    entries,            \* NodePool._entries
    primary_url,        \* NodePool._primary_url
    cooldown_seconds,   \* NodePool._cooldown_seconds
    health_check_path,  \* NodePool._health_check_path is set
    api_key,            \* config.api_key is set
    req,                \* the in-flight _request_with_pool calls
    last,               \* what the request that finished in the latest step returned
    bucket,             \* one TokenBucket
    hist,               \* observations of the bucket's callers
    per_tool_rate_limits, \* config.per_tool_rate_limits
    pk,                 \* the PerKeyRateLimiter and the buckets it created
    call,               \* the in-flight PerKeyRateLimiter.allow calls
    seen,               \* observations of the limiter's callers
    client,             \* QortalApiClient._client and _owns_client
    closer,             \* the in-flight QortalApiClient.aclose calls
    closes,             \* observations of the handles' aclose calls
    metrics,            \* default_metrics: the counters of the MetricsRecorder
    gateway             \* the in-flight tool invocations of the server's routes

poolVars == <<entries, primary_url, cooldown_seconds, health_check_path, api_key,
              req, last>>
bucketVars == <<bucket, hist>>
limiterVars == <<per_tool_rate_limits, pk, call, seen>>
clientVars == <<client, closer, closes>>
gatewayVars == <<metrics, gateway>>
vars == <<now, entries, primary_url, cooldown_seconds, health_check_path, api_key,
          req, last, bucket, hist, per_tool_rate_limits, pk, call, seen,
          client, closer, closes, metrics, gateway>>

\* ------------------------------------------------------- response processor
\* A text compared case-insensitively by the classifier: its words and its case.
Txt(ws, c) == [w |-> ws, c |-> c]
NoTxt == Txt(<<>>, "none")
Upper(t) == IF t = NoTxt THEN NoTxt ELSE Txt(t.w, "upper")
Lower(t) == IF t = NoTxt THEN NoTxt ELSE Txt(t.w, "lower")
U(word) == Txt(<<word>>, "upper")

\* phrase in text, for two texts of the same case
Contains(t, phrase) ==
    /\ t.c = phrase.c
    /\ \E i \in 1..Len(t.w) :
          /\ i + Len(phrase.w) - 1 <= Len(t.w)
          /\ SubSeq(t.w, i, i + Len(phrase.w) - 1) = phrase.w

\* error_code: [t |-> "none"] | [t |-> "int", v |-> Txt] | [t |-> "str", v |-> Txt]
NoCode == [t |-> "none", v |-> NoTxt]
IntCode(word) == [t |-> "int", v |-> U(word)]
StrCode(txt) == [t |-> "str", v |-> txt]

Err(kind, msg, status) == [type |-> "error", kind |-> kind, msg |-> msg, status |-> status]
Val(what) == [type |-> "value", kind |-> what, msg |-> "", status |-> 0]

\* An ordered rule table, first match wins: a rule names provider codes, a
\* phrase looked for inside the message, and the error it yields.  Texts are
\* compared by their words, whatever their case.  With whole_message, a
\* message that is, as a whole, one of the rule's codes matches as well (the
\* classifier puts the upper-cased message among its signals).
Rule(codes, phrase, kind, msg) ==
    [codes |-> codes, phrase |-> phrase, kind |-> kind, msg |-> msg]
Matches(rule, whole_message, error_code, message) ==
    \/ error_code.t # "none" /\ error_code.v.w \in rule.codes
    \/ whole_message /\ message # NoTxt /\ message.w \in rule.codes
    \/ /\ rule.phrase # <<>>
       /\ \E i \in 1..Len(message.w) :
             /\ i + Len(rule.phrase) - 1 <= Len(message.w)
             /\ SubSeq(message.w, i, i + Len(rule.phrase) - 1) = rule.phrase
Classify(table, whole_message, error_code, status_code, message) ==
    LET hits == {i \in 1..Len(table) :
                    Matches(table[i], whole_message, error_code, message)}
    IN  IF hits # {}
        THEN LET first == CHOOSE i \in hits : \A j \in hits : i <= j
             IN  Err(table[first].kind, table[first].msg, status_code)
        ELSE IF status_code = 404
        THEN Err("Generic", "Resource not found.", status_code)
        ELSE IF status_code \in {401, 403}
        THEN Err("Unauthorized", "Unauthorized or API key required.", status_code)
        ELSE Err("Generic", "Qortal API error.", status_code)

\* rules 1-7 of the ten-rule table (rules 8-10 are the status rules of Classify)
TenRuleTable ==
    << Rule({<<"invalid_address">>, <<"invalid_qortal_address">>, <<"invalid_recipient">>,
             <<"102">>}, <<"invalid", "address">>,
            "InvalidAddress", "Invalid Qortal address."),
       Rule({<<"name_unknown">>, <<"401">>}, <<>>, "NameNotFound", "Name not found."),
       Rule({<<"block_unknown">>}, <<"block", "unknown">>, "Generic", "Block not found."),
       Rule({<<"invalid_asset_id">>, <<"601">>}, <<>>, "Generic", "Asset not found."),
       Rule({<<"address_unknown">>, <<"unknown_address">>, <<"124">>},
            <<"unknown", "address">>, "AddressNotFound", "Address not found on chain."),
       Rule({<<"group_unknown">>, <<"1101">>}, <<>>, "GroupNotFound", "Group not found."),
       Rule({<<"invalid_public_key">>}, <<"invalid", "public", "key">>,
            "Generic", "Invalid public key.") >>
TenRules(error_code, status_code, message) ==
    Classify(TenRuleTable, TRUE, error_code, status_code, message)

\* the table with a whole message "block not found" added to rule 3 and an
\* INVALID_DATA rule placed before the status rules
ElevenRuleTable ==
    [TenRuleTable EXCEPT ![3].codes = @ \cup {<<"block", "not", "found">>}]
    \o << Rule({<<"invalid_data">>}, <<"invalid", "data">>, "Generic", "Qortal API error.") >>
ElevenRules(error_code, status_code, message) ==
    Classify(ElevenRuleTable, TRUE, error_code, status_code, message)

MapError(error_code, status_code, message) ==
    LET normalized == IF error_code.t = "int" THEN error_code.v
                      ELSE IF error_code.t = "str" THEN Upper(error_code.v)
                      ELSE NoTxt
        message_upper == Upper(message)
        lowered_message == Lower(message)
        signals == ({normalized} \cup {message_upper}) \ {NoTxt}
        Hit(S) == signals \cap S # {}
        InMsg(ws) == Contains(lowered_message, Txt(ws, "lower"))
    IN  IF Hit({U("invalid_address"), U("invalid_qortal_address"),
                U("invalid_recipient"), U("102")})
           \/ InMsg(<<"invalid", "address">>)
        THEN Err("InvalidAddress", "Invalid Qortal address.", status_code)
        ELSE IF Hit({U("name_unknown"), U("401")})
        THEN Err("NameNotFound", "Name not found.", status_code)
        ELSE IF Hit({U("block_unknown"), Txt(<<"block", "not", "found">>, "upper")})
                \/ InMsg(<<"block", "unknown">>)
        THEN Err("Generic", "Block not found.", status_code)
        ELSE IF Hit({U("invalid_asset_id"), U("601")})
        THEN Err("Generic", "Asset not found.", status_code)
        ELSE IF Hit({U("address_unknown"), U("unknown_address"), U("124")})
                \/ InMsg(<<"unknown", "address">>)
        THEN Err("AddressNotFound", "Address not found on chain.", status_code)
        ELSE IF Hit({U("group_unknown"), U("1101")})
        THEN Err("GroupNotFound", "Group not found.", status_code)
        ELSE IF Hit({U("invalid_public_key")})
                \/ InMsg(<<"invalid", "public", "key">>)
        THEN Err("Generic", "Invalid public key.", status_code)
        ELSE IF Hit({U("invalid_data")}) \/ InMsg(<<"invalid", "data">>)
        THEN Err("Generic", "Qortal API error.", status_code)
        ELSE IF status_code = 404
        THEN Err("Generic", "Resource not found.", status_code)
        ELSE IF status_code \in {401, 403}
        THEN Err("Unauthorized", "Unauthorized or API key required.", status_code)
        ELSE Err("Generic", "Qortal API error.", status_code)

\* response.json(): the decoded value, Python's None for the JSON text null,
\* and ValueError ("bad") for a body that is not JSON
Decoded(json) == IF json = "null" THEN "None" ELSE json

\* decodes the body only for a call that expects JSON
DataOfExpected(response, expect_json) ==
    IF expect_json
    THEN IF response.json = "bad" THEN "None" ELSE Decoded(response.json)
    ELSE "None"

\* data after the try/except around response.json()
DataOf(response, expect_json) ==
    IF expect_json \/ response.status >= 400
    THEN IF response.json = "bad" THEN "None" ELSE Decoded(response.json)
    ELSE "None"

\* classifies a 401 like any other status >= 400
ProcessResponseBy401Body(response, expect_dict, expect_json) ==
    LET data == DataOf(response, expect_json)
    IN  IF response.status >= 400
        THEN IF data = "dict"
             THEN MapError(response.error, response.status, response.message)
             ELSE MapError(NoCode, response.status, NoTxt)
        ELSE IF ~expect_json THEN Val("text")
        ELSE IF data = "None" \/ (expect_dict /\ data # "dict")
        THEN Err("Generic", "Unexpected response from node.", response.status)
        ELSE Val(data)

\* response: [status, json \in {"bad", "null", "scalar", "dict", "list"},
\* error, message] ("bad": response.json() raises ValueError).  The result is
\* the value returned or the error raised.
ProcessResponse(response, expect_dict, expect_json) ==
    IF response.status = 401
    THEN Err("Unauthorized", "Unauthorized or API key required.", 401)
    ELSE LET data == DataOf(response, expect_json)
         IN  IF response.status >= 400
             THEN IF data = "dict"
                  THEN MapError(response.error, response.status, response.message)
                  ELSE MapError(NoCode, response.status, NoTxt)
             ELSE IF ~expect_json THEN Val("text")
             ELSE IF data = "None"
             THEN Err("Generic", "Unexpected response from node.", response.status)
             ELSE IF expect_dict /\ data # "dict"
             THEN Err("Generic", "Unexpected response from node.", response.status)
             ELSE Val(data)

\* ------------------------------------------------------------- node pool
\* made only observes the entry: the handles created for it so far, so that
\* the handle it stores (client is TRUE) is its made-th
NodeEntry(url) ==
    [base_url |-> url, client |-> FALSE, last_failure |-> NoTime,
     last_health_check |-> NoTime, made |-> 0]

EnsureClientAnew(ents, k) == [ents EXCEPT ![k].client = TRUE, ![k].made = @ + 1]

\* if entry.client is None: entry.client = httpx.AsyncClient(...)
EnsureClient(ents, k) ==
    IF ents[k].client THEN ents
    ELSE [ents EXCEPT ![k].client = TRUE, ![k].made = @ + 1]

\* the handle an entry stores: its number, 0 for None
HandleOf(entry) == IF entry.client THEN entry.made ELSE 0

\* position of the first entry whose base_url is url; 0 when there is none
IndexOf(ents, url) ==
    IF \E k \in 1..Len(ents) : ents[k].base_url = url
    THEN CHOOSE k \in 1..Len(ents) :
            /\ ents[k].base_url = url
            /\ \A j \in 1..(k - 1) : ents[j].base_url # url
    ELSE 0

InCooldownInclusive(entry, t, cooldown) ==
    IF entry.last_failure = NoTime THEN FALSE
    ELSE (t - entry.last_failure) <= cooldown

InCooldown(entry, t, cooldown) ==
    IF entry.last_failure = NoTime THEN FALSE
    ELSE (t - entry.last_failure) < cooldown

ReportFailureDropped(ents, url, t) == ents

\* marks the failure and moves the entry behind the others
ReportFailureDemoting(ents, url, t) ==
    LET k == IndexOf(ents, url)
    IN  IF k = 0 THEN ents
        ELSE [j \in 1..Len(ents) |->
                IF j < k THEN ents[j]
                ELSE IF j < Len(ents) THEN ents[j + 1]
                ELSE [ents[k] EXCEPT !.last_failure = t]]

\* touches the health-check time of the entry as well
ReportFailureStamping(ents, url, t) ==
    LET k == IndexOf(ents, url)
    IN  IF k = 0 THEN ents
        ELSE [ents EXCEPT ![k].last_failure = t, ![k].last_health_check = t]

ReportFailure(ents, url, t) ==
    LET k == IndexOf(ents, url)
    IN  IF k = 0 THEN ents ELSE [ents EXCEPT ![k].last_failure = t]

\* clears the failure only once the cooldown has elapsed
ReportSuccessAfterCooldown(ents, url) ==
    LET k == IndexOf(ents, url)
    IN  IF k = 0 \/ InCooldown(ents[k], now, cooldown_seconds) THEN ents
        ELSE [ents EXCEPT ![k].last_failure = NoTime]

ReportSuccess(ents, url) ==
    LET k == IndexOf(ents, url)
    IN  IF k = 0 THEN ents ELSE [ents EXCEPT ![k].last_failure = NoTime]

IsTrusted(url) == url = primary_url

BuildHeadersUntrusted(use_api_key, trusted) == use_api_key /\ api_key

\* TRUE iff the headers carry X-API-KEY
BuildHeaders(use_api_key, trusted) == use_api_key /\ trusted /\ api_key

\* get_candidates from entry k on, up to its return (done) or to the await of
\* the health probe of entry k.  cands and excl are entry positions: the
\* candidates appended so far and the entries skipped so far.
ReturnCandidatesUnforced(cands, excl, ents) ==
    [done |-> TRUE, k |-> 0, cands |-> cands, excl |-> excl, ents |-> ents]

\* the end of get_candidates: the primary is forced in when nothing is eligible
ReturnCandidates(cands, excl, ents) ==
    IF cands = <<>> /\ Len(ents) > 0
    THEN [done |-> TRUE, k |-> 0, cands |-> <<1>>, excl |-> excl,
          ents |-> EnsureClient(ents, 1)]
    ELSE [done |-> TRUE, k |-> 0, cands |-> cands, excl |-> excl, ents |-> ents]

RECURSIVE Scan(_, _, _, _)
Scan(k, cands, excl, ents) ==
    IF k > Len(ents)
    THEN ReturnCandidates(cands, excl, ents)
    ELSE IF InCooldown(ents[k], now, cooldown_seconds)
    THEN Scan(k + 1, cands, excl \cup {k}, ents)
    ELSE LET created == EnsureClient(ents, k)
         IN  IF ents[k].last_failure # NoTime /\ health_check_path
             THEN [done |-> FALSE, k |-> k, cands |-> cands, excl |-> excl,
                   ents |-> created]
             ELSE Scan(k + 1, Append(cands, k), excl, created)

ProbeEntriesForgiving(ents, k, outcome) ==
    ReportSuccess([ents EXCEPT ![k].last_health_check = now], ents[k].base_url)

\* _probe after its await: outcome "ok" (status < 400), "bad" (status >= 400)
\* or "err" (httpx.RequestError)
ProbeEntries(ents, k, outcome) ==
    IF outcome = "ok"
    THEN ReportSuccess([ents EXCEPT ![k].last_health_check = now], ents[k].base_url)
    ELSE IF outcome = "bad"
    THEN ReportFailure([ents EXCEPT ![k].last_health_check = now], ents[k].base_url, now)
    ELSE ReportFailure(ents, ents[k].base_url, now)

\* ------------------------------------------------------- pooled requests
\* the typed request operations: use_api_key, expect_dict, expect_json
Ops == {"fetch_node_status", "fetch_block_height", "fetch_block_height_by_signature"}
PoolOps == {"fetch_node_status", "fetch_block_height"}
UseApiKeyAlways(op) == TRUE
UseApiKey(op) == op = "fetch_node_status"
ExpectDict(op) == op = "fetch_node_status"
ExpectJson(op) == op # "fetch_block_height_by_signature"

Resp(status, json, error, message) ==
    [status |-> status, json |-> json, error |-> error, message |-> message]
NoResp == Resp(0, "bad", NoCode, NoTxt)
PoolResponses ==
    { Resp(200, "dict", NoCode, NoTxt),
      Resp(200, "list", NoCode, NoTxt),
      Resp(401, "dict", StrCode(Txt(<<"unauthorized">>, "mixed")), NoTxt),
      Resp(404, "dict", StrCode(U("address_unknown")), NoTxt) }

NoResult == [type |-> "none", kind |-> "", msg |-> "", status |-> 0]
NodeUnreachable == [type |-> "error", kind |-> "NodeUnreachable",
                    msg |-> "Node unreachable", status |-> 0]

\* pc: "idle", "probe" (get_candidates awaits the health probe of entry k),
\* "send" (awaits client.get on candidate i), "raise" (no candidate at all).
\* sent: the HTTP GETs issued, with the target URL and whether X-API-KEY went.
\* hnds: the handle held for each candidate, as (entry.client, entry) was
\* appended.  excl, alone and nfail only observe the run: the entries
\* get_candidates skipped, whether no other request was in flight during this
\* one, and the transport failures met.
IdleReq ==
    [pc |-> "idle", op |-> "none", k |-> 0, cands |-> <<>>, i |-> 0, sent |-> <<>>,
     nfail |-> 0, excl |-> {}, alone |-> TRUE, hnds |-> <<>>]

\* last: the finished request as it was when it returned or raised, its
\* result, the response it processed, the URL that answered, and that node's
\* last_failure just before the success was reported.
\* probe: the health probe that ended in the latest step, if one did: the
\* request that awaited it, the entry probed and the outcome.
\* report: the report_failure or report_success call made on its own in the
\* latest step, if one was: which of the two and the URL it was given.
NoProbe == [r |-> 0, k |-> 0, outcome |-> "none"]
NoReport == [kind |-> "none", url |-> 0]
Finished(rec, result, resp, url, lf) ==
    [rec |-> rec, result |-> result, resp |-> resp, url |-> url, lf_before |-> lf,
     probe |-> NoProbe, report |-> NoReport]
NoLast == Finished(IdleReq, NoResult, NoResp, 0, NoTime)

Attempt(ents, idx, op) ==
    [url |-> ents[idx].base_url,
     key |-> BuildHeaders(UseApiKey(op), IsTrusted(ents[idx].base_url))]

\* the request after a stretch s of get_candidates: still probing, or the
\* first candidate's GET is issued
\* the handles held for the candidates cands: those already held, and for
\* the candidates appended in this stretch the handle their entry stores
Held(hnds, cands, ents) ==
    [j \in 1..Len(cands) |->
        IF j <= Len(hnds) THEN hnds[j] ELSE HandleOf(ents[cands[j]])]

AfterScan(rec, s) ==
    IF ~s.done
    THEN [rec EXCEPT !.pc = "probe", !.k = s.k, !.cands = s.cands, !.excl = s.excl,
                     !.hnds = Held(rec.hnds, s.cands, s.ents)]
    ELSE IF s.cands = <<>>
    THEN [rec EXCEPT !.pc = "raise", !.k = 0, !.cands = s.cands, !.excl = s.excl]
    ELSE [rec EXCEPT !.pc = "send", !.k = 0, !.cands = s.cands, !.excl = s.excl,
                     !.hnds = Held(rec.hnds, s.cands, s.ents),
                     !.i = 1, !.sent = <<Attempt(s.ents, s.cands[1], rec.op)>>]

InFlight(rec) == rec.pc \in {"probe", "send"}

\* req and last once request r has become rec
Proceed(reqs, r, rec) ==
    IF rec.pc = "raise"
    THEN /\ req' = [reqs EXCEPT ![r] = IdleReq]
         /\ last' = Finished(rec, NodeUnreachable, NoResp, 0, NoTime)
    ELSE /\ req' = [reqs EXCEPT ![r] = rec]
         /\ last' = NoLast

StartRequest(r, op) ==
    /\ req[r].pc = "idle"
    /\ LET s == Scan(1, <<>>, {}, entries)
           rec == [IdleReq EXCEPT !.op = op,
                       !.alone = \A q \in Reqs \ {r} : ~InFlight(req[q])]
           others == [q \in Reqs |->
                        IF InFlight(req[q]) THEN [req[q] EXCEPT !.alone = FALSE]
                        ELSE req[q]]
       IN  /\ entries' = s.ents
           /\ Proceed(others, r, AfterScan(rec, s))
    /\ UNCHANGED <<now, primary_url, cooldown_seconds, health_check_path, api_key,
                   bucketVars, limiterVars, clientVars,
                   gatewayVars>>

ProbeDone(r, outcome) ==
    /\ req[r].pc = "probe"
    /\ LET k == req[r].k
           ents == ProbeEntries(entries, k, outcome)
           s == IF outcome = "ok"
                THEN Scan(k + 1, Append(req[r].cands, k), req[r].excl, ents)
                ELSE Scan(k + 1, req[r].cands, req[r].excl \cup {k}, ents)
           rec == AfterScan(req[r], s)
       IN  /\ entries' = s.ents
           /\ IF rec.pc = "raise"
              THEN Proceed(req, r, rec)
              ELSE /\ req' = [req EXCEPT ![r] = rec]
                   /\ last' = [NoLast EXCEPT
                                 !.probe = [r |-> r, k |-> k, outcome |-> outcome]]
    /\ UNCHANGED <<now, primary_url, cooldown_seconds, health_check_path, api_key,
                   bucketVars, limiterVars, clientVars,
                   gatewayVars>>

\* tries the failed candidate again before moving on
SendFailedRetry(r) ==
    /\ req[r].pc = "send"
    /\ LET me == req[r]
           url == entries[me.cands[me.i]].base_url
       IN  /\ entries' = ReportFailure(entries, url, now)
           /\ IF me.nfail < me.i
              THEN /\ req' = [req EXCEPT ![r] =
                        [me EXCEPT !.nfail = @ + 1,
                           !.sent = Append(@, Attempt(entries, me.cands[me.i], me.op))]]
                   /\ last' = NoLast
              ELSE IF me.i < Len(me.cands)
              THEN /\ req' = [req EXCEPT ![r] =
                        [me EXCEPT !.i = me.i + 1, !.nfail = @ + 1,
                           !.sent = Append(@, Attempt(entries, me.cands[me.i + 1], me.op))]]
                   /\ last' = NoLast
              ELSE /\ req' = [req EXCEPT ![r] = IdleReq]
                   /\ last' = Finished([me EXCEPT !.nfail = @ + 1], NodeUnreachable,
                                       NoResp, 0, NoTime)
    /\ UNCHANGED <<now, primary_url, cooldown_seconds, health_check_path, api_key,
                   bucketVars, limiterVars, clientVars,
                   gatewayVars>>

\* gives up when the next candidate has meanwhile gone into cooldown
SendFailedStrict(r) ==
    /\ req[r].pc = "send"
    /\ LET me == req[r]
           url == entries[me.cands[me.i]].base_url
           ents == ReportFailure(entries, url, now)
       IN  /\ entries' = ents
           /\ IF /\ me.i < Len(me.cands)
                 /\ ~InCooldown(ents[me.cands[me.i + 1]], now, cooldown_seconds)
              THEN /\ req' = [req EXCEPT ![r] =
                        [me EXCEPT !.i = me.i + 1, !.nfail = @ + 1,
                           !.sent = Append(@, Attempt(entries, me.cands[me.i + 1], me.op))]]
                   /\ last' = NoLast
              ELSE /\ req' = [req EXCEPT ![r] = IdleReq]
                   /\ last' = Finished([me EXCEPT !.nfail = @ + 1], NodeUnreachable,
                                       NoResp, 0, NoTime)
    /\ UNCHANGED <<now, primary_url, cooldown_seconds, health_check_path, api_key,
                   bucketVars, limiterVars, clientVars, gatewayVars>>

\* client.get raised httpx.RequestError
SendFailed(r) ==
    /\ req[r].pc = "send"
    /\ LET me == req[r]
           url == entries[me.cands[me.i]].base_url
       IN  /\ entries' = ReportFailure(entries, url, now)
           /\ IF me.i < Len(me.cands)
              THEN /\ req' = [req EXCEPT ![r] =
                        [me EXCEPT !.i = me.i + 1, !.nfail = @ + 1,
                           !.sent = Append(@, Attempt(entries, me.cands[me.i + 1], me.op))]]
                   /\ last' = NoLast
              ELSE /\ req' = [req EXCEPT ![r] = IdleReq]
                   /\ last' = Finished([me EXCEPT !.nfail = @ + 1], NodeUnreachable,
                                       NoResp, 0, NoTime)
    /\ UNCHANGED <<now, primary_url, cooldown_seconds, health_check_path, api_key,
                   bucketVars, limiterVars, clientVars,
                   gatewayVars>>

\* a response that processes to an error moves on to the next candidate
SendAnsweredRetry(r, response) ==
    /\ req[r].pc = "send"
    /\ LET me == req[r]
           idx == me.cands[me.i]
           url == entries[idx].base_url
           result == ProcessResponse(response, ExpectDict(me.op), ExpectJson(me.op))
       IN  /\ entries' = ReportSuccess(entries, url)
           /\ IF result.type = "error" /\ me.i < Len(me.cands)
              THEN /\ req' = [req EXCEPT ![r] =
                        [me EXCEPT !.i = me.i + 1,
                           !.sent = Append(@, Attempt(entries, me.cands[me.i + 1], me.op))]]
                   /\ last' = NoLast
              ELSE /\ req' = [req EXCEPT ![r] = IdleReq]
                   /\ last' = Finished(me, result, response, url,
                                       entries[idx].last_failure)
    /\ UNCHANGED <<now, primary_url, cooldown_seconds, health_check_path, api_key,
                   bucketVars, limiterVars, clientVars,
                   gatewayVars>>

\* client.get returned an HTTP response
SendAnswered(r, response) ==
    /\ req[r].pc = "send"
    /\ LET me == req[r]
           idx == me.cands[me.i]
           url == entries[idx].base_url
       IN  /\ entries' = ReportSuccess(entries, url)
           /\ req' = [req EXCEPT ![r] = IdleReq]
           /\ last' = Finished(me, ProcessResponse(response, ExpectDict(me.op),
                                                   ExpectJson(me.op)),
                               response, url, entries[idx].last_failure)
    /\ UNCHANGED <<now, primary_url, cooldown_seconds, health_check_path, api_key,
                   bucketVars, limiterVars, clientVars,
                   gatewayVars>>

Tick ==
    /\ now < MaxTime
    /\ now' = now + 1
    /\ last' = NoLast
    /\ UNCHANGED <<entries, primary_url, cooldown_seconds, health_check_path, api_key,
                   req, bucketVars, limiterVars, clientVars,
                   gatewayVars>>

NoBucket == [rate |-> 0, capacity |-> 0, tokens |-> 0, timestamp |-> 0]
NoHist == <<>>

\* where a connection handle is stored: 0 is QortalApiClient._client and
\* i is the client field of the pool's i-th entry
Slots == 0..NumNodes

\* the handles a slot may come to store, in the order of their creation: a
\* handle is created only after an aclose call forgot the one before it
Gens == 1..(MaxCloses + 1)

\* per slot and handle, the aclose calls made on the handle so far
NoCloses == [s \in Slots |-> [g \in Gens |-> 0]]

\* the aclose calls of the client that may be in flight at a time
Closers == 1..NumClosers

\* an aclose call of the client: "idle" (not in flight), "entry" (awaits
\* entry.client.aclose() of entry i), "own" (awaits self._client.aclose());
\* closed counts the handles it has closed
IdleClose == [pc |-> "idle", i |-> 0, closed |-> 0]

\* the aclose calls: log keeps the count of closed handles of every call
\* that has returned
IdleCloser == [calls |-> [c \in Closers |-> IdleClose], log |-> <<>>]

\* QortalApiClient(config, async_client): _client and _owns_client after
\* construction, with no aclose call made
NewClient(injected) ==
    /\ client = [handle |-> IF injected THEN "open" ELSE "none", owns |-> ~injected,
                 made |-> 0]
    /\ closer = IdleCloser
    /\ closes = NoCloses

\* no route of the server was called: the recorder's counters after
\* MetricsRecorder() and no invocation in flight
NoGateway ==
    /\ metrics = [rate_limited |-> 0, tool_success |-> <<>>, tool_error |-> <<>>]
    /\ gateway = <<>>

\* no PerKeyRateLimiter was constructed
NoLimiter ==
    /\ per_tool_rate_limits = <<>>
    /\ pk = [state |-> "none"]
    /\ call = <<>>
    /\ seen = <<>>

InitPool ==
    /\ now = 0
    /\ entries = [k \in 1..NumNodes |-> NodeEntry(k)]
    /\ primary_url = 1
    /\ cooldown_seconds = Cooldown
    /\ health_check_path \in BOOLEAN
    /\ api_key \in BOOLEAN
    /\ req = [r \in Reqs |-> IdleReq]
    /\ last = NoLast
    /\ bucket = NoBucket
    /\ hist = NoHist
    /\ NoLimiter
    /\ NewClient(FALSE)
    /\ NoGateway

\* ----------------------------------------------------------- token bucket
Min(a, b) == IF a <= b THEN a ELSE b

TokenBucket(rate, capacity, t) ==
    [rate |-> rate, capacity |-> capacity, tokens |-> capacity, timestamp |-> t]

Elapsed(b, t) == t - b.timestamp

TimestampKept(b, t) == b.timestamp

\* self.timestamp = now
Timestamp(b, t) == t

RefilledUnclamped(b, t) == b.tokens + Elapsed(b, t) * b.rate

\* min(self.capacity, self.tokens + elapsed * self.rate)
Refilled(b, t) == Min(b.capacity, b.tokens + Elapsed(b, t) * b.rate)

EnoughStrictly(tokens, amount) == tokens > amount

\* self.tokens >= amount
Enough(tokens, amount) == tokens >= amount

\* a denial empties the bucket
ConsumedDraining(b, t, amount) ==
    LET tokens == Refilled(b, t)
        stamped == [b EXCEPT !.timestamp = Timestamp(b, t)]
    IN  IF Enough(tokens, amount)
        THEN [bucket |-> [stamped EXCEPT !.tokens = tokens - amount], allowed |-> TRUE]
        ELSE [bucket |-> [stamped EXCEPT !.tokens = 0], allowed |-> FALSE]

\* consume(amount) at time t: the bucket afterwards and the answer
Consumed(b, t, amount) ==
    LET tokens == Refilled(b, t)
        stamped == [b EXCEPT !.timestamp = Timestamp(b, t)]
    IN  IF Enough(tokens, amount)
        THEN [bucket |-> [stamped EXCEPT !.tokens = tokens - amount], allowed |-> TRUE]
        ELSE [bucket |-> [stamped EXCEPT !.tokens = tokens], allowed |-> FALSE]

\* hist observes the calls: how many consumes were made (0, 1, "more"), the
\* latest answer, the tokens the latest consume found before clamping and
\* after refill, the first denial since the last allowed consume, the denial
\* the latest allowed consume came after, and a window an observer opened at
\* some moment with the allowed consumes counted since.
FreshHist ==
    [calls |-> 0, answer |-> "none", raw |-> 0, found |-> 0, first |-> "none",
     denied_at |-> NoTime, after |-> NoTime, start |-> NoTime, count |-> 0]

\* consume(1), as RateLimiter.allow calls it
Consume ==
    /\ LET c == Consumed(bucket, now, TokenUnit)
           answer == IF c.allowed THEN "allowed" ELSE "denied"
       IN  /\ bucket' = c.bucket
           /\ hist' = [hist EXCEPT
                 !.calls = IF @ = 0 THEN 1 ELSE 2,
                 !.answer = answer,
                 !.raw = bucket.tokens + Elapsed(bucket, now) * bucket.rate,
                 !.found = Refilled(bucket, now),
                 !.first = IF hist.calls = 0 THEN answer ELSE @,
                 !.denied_at = IF c.allowed THEN NoTime
                               ELSE IF @ = NoTime THEN now ELSE @,
                 !.after = IF c.allowed THEN hist.denied_at ELSE NoTime,
                 !.count = IF c.allowed /\ hist.start # NoTime THEN @ + 1 ELSE @]
    /\ UNCHANGED <<now, poolVars, limiterVars, clientVars,
                   gatewayVars>>

\* an observer starts counting the allowed consumes from this moment
OpenWindow ==
    /\ hist.start = NoTime
    /\ hist' = [hist EXCEPT !.start = now, !.count = 0]
    /\ UNCHANGED <<now, poolVars, bucket, limiterVars, clientVars,
                   gatewayVars>>

NoPool ==
    /\ entries = <<>>
    /\ primary_url = 0
    /\ cooldown_seconds = 0
    /\ health_check_path = FALSE
    /\ api_key = FALSE
    /\ req = [r \in Reqs |-> IdleReq]
    /\ last = NoLast

InitBucket ==
    /\ NoPool
    /\ NoLimiter
    /\ NewClient(FALSE)
    /\ NoGateway
    /\ now = 0
    /\ \E rate \in 0..MaxRate, capacity \in 0..MaxCapacity :
          bucket = TokenBucket(rate, capacity, now)
    /\ hist = FreshHist

NextBucket == Consume \/ OpenWindow \/ Tick

SpecBucket == InitBucket /\ [][NextBucket]_vars

NextPool ==
    \/ \E r \in Reqs, op \in PoolOps : StartRequest(r, op)
    \/ \E r \in Reqs, outcome \in {"ok", "bad", "err"} : ProbeDone(r, outcome)
    \/ \E r \in Reqs : SendFailed(r)
    \/ \E r \in Reqs, response \in PoolResponses : SendAnswered(r, response)
    \/ Tick

SpecPool == InitPool /\ [][NextPool]_vars

\* ------------------------------------------------------- pool reports
\* the URLs a report can be given: those of the entries, and two of no entry
ReportUrls == 0..(NumNodes + 1)

\* report_failure(base_url) is called
ReportFailureCalled(url) ==
    /\ entries' = ReportFailure(entries, url, now)
    /\ last' = [NoLast EXCEPT !.report = [kind |-> "failure", url |-> url]]
    /\ UNCHANGED <<now, primary_url, cooldown_seconds, health_check_path, api_key,
                   req, bucketVars, limiterVars, clientVars, gatewayVars>>

\* report_success(base_url) is called
ReportSuccessCalled(url) ==
    /\ entries' = ReportSuccess(entries, url)
    /\ last' = [NoLast EXCEPT !.report = [kind |-> "success", url |-> url]]
    /\ UNCHANGED <<now, primary_url, cooldown_seconds, health_check_path, api_key,
                   req, bucketVars, limiterVars, clientVars, gatewayVars>>

\* a pool in any state its entries can be in at time 0: each with or without
\* a handle, a recorded failure and a recorded health check
InitReports ==
    /\ now = 0
    /\ \E handle \in [Nodes -> BOOLEAN], failed \in [Nodes -> {NoTime, 0}],
          checked \in [Nodes -> {NoTime, 0}] :
          entries = [k \in Nodes |->
                        [base_url |-> k, client |-> handle[k],
                         last_failure |-> failed[k],
                         last_health_check |-> checked[k],
                         made |-> IF handle[k] THEN 1 ELSE 0]]
    /\ primary_url = 1
    /\ cooldown_seconds = Cooldown
    /\ health_check_path \in BOOLEAN
    /\ api_key = FALSE
    /\ req = [r \in Reqs |-> IdleReq]
    /\ last = NoLast
    /\ bucket = NoBucket
    /\ hist = NoHist
    /\ NoLimiter
    /\ NewClient(FALSE)
    /\ NoGateway

NextReports ==
    \/ \E url \in ReportUrls : ReportFailureCalled(url)
    \/ \E url \in ReportUrls : ReportSuccessCalled(url)
    \/ Tick

SpecReports == InitReports /\ [][NextReports]_vars

\* ------------------------------------------------------- per-key limiter
Keys == 1..NumKeys
Callers == 1..NumCallers

\* burst=None, and a key without an entry in per_tool_rate_limits
NoBurst == -1
NoRate == -1

\* RateLimiter(rate_per_sec, burst) at time t, with its bucket's asyncio.Lock
RateLimiter(rate_per_sec, burst, t) ==
    [bucket |-> TokenBucket(rate_per_sec,
                            IF burst # NoBurst THEN burst ELSE rate_per_sec, t),
     lock |-> 0]

\* PerKeyRateLimiter(rate_per_sec, burst, **kwargs): __init__ takes no other
\* keyword, so any keyword in kwargs makes the call raise TypeError
PerKeyRateLimiter(rate_per_sec, burst, kwargs) ==
    IF kwargs # {} THEN [state |-> "TypeError"]
    ELSE [state |-> "ok",
          rate |-> rate_per_sec,
          burst |-> IF burst # NoBurst THEN burst ELSE rate_per_sec,
          limiters |-> [k \in Keys |-> 0],     \* _limiters: 0 is an absent key
          lock |-> 0,                          \* _lock: the caller holding it
          heap |-> <<>>]                       \* the RateLimiter objects created

IdleCall == [pc |-> "idle", key |-> 0, limiter |-> 0]
NoAnswer == [key |-> 0, answer |-> "none", short |-> FALSE]
FreshSeen ==
    [created |-> [k \in Keys |-> 0], born |-> [k \in Keys |-> NoTime],
     allowed |-> [k \in Keys |-> 0], last |-> NoAnswer]

StillHeld(lock) == lock

\* leaving an "async with" block releases the lock
Released(lock) == 0

\* asyncio.Lock: acquire goes through only while nobody holds the lock
LockFree(lock) == lock = 0

LookupMissed(limiters, key) == 0

\* self._limiters.get(key)
Lookup(limiters, key) == limiters[key]

StoredForAll(limiters, key, h) == [k \in DOMAIN limiters |-> h]

\* self._limiters[key] = limiter
Stored(limiters, key, h) == [limiters EXCEPT ![key] = h]

\* allow(key) is called: the caller reaches "async with self._lock"
Called(c, key) ==
    /\ pk.state = "ok"
    /\ call[c].pc = "idle"
    /\ call' = [call EXCEPT ![c] = [pc |-> "enter", key |-> key, limiter |-> 0]]
    /\ seen' = [seen EXCEPT !.last = NoAnswer]

\* allow(key) called on its own
Allow(c, key) ==
    /\ Called(c, key)
    /\ UNCHANGED <<now, poolVars, bucketVars, clientVars, per_tool_rate_limits, pk,
                   gatewayVars>>

\* the caller gets the limiter's lock
Acquire(c) ==
    /\ call[c].pc = "enter"
    /\ LockFree(pk.lock)
    /\ pk' = [pk EXCEPT !.lock = c]
    /\ call' = [call EXCEPT ![c].pc = "locked"]
    /\ seen' = [seen EXCEPT !.last = NoAnswer]
    /\ UNCHANGED <<now, poolVars, bucketVars, clientVars, per_tool_rate_limits,
                   gatewayVars>>

\* lines 50-53 and the end of the "async with" block
GetOrCreate(c) ==
    /\ call[c].pc = "locked"
    /\ LET key == call[c].key
           found == Lookup(pk.limiters, key)
       IN  IF found = 0
           THEN /\ pk' = [pk EXCEPT
                        !.heap = Append(@, RateLimiter(pk.rate, pk.burst, now)),
                        !.limiters = Stored(@, key, Len(pk.heap) + 1),
                        !.lock = Released(@)]
                /\ call' = [call EXCEPT ![c].pc = "await",
                                        ![c].limiter = Len(pk.heap) + 1]
                /\ seen' = [seen EXCEPT !.created[key] = @ + 1,
                                        !.born[key] = IF @ = NoTime THEN now ELSE @,
                                        !.last = NoAnswer]
           ELSE /\ pk' = [pk EXCEPT !.lock = Released(@)]
                /\ call' = [call EXCEPT ![c].pc = "await", ![c].limiter = found]
                /\ seen' = [seen EXCEPT !.last = NoAnswer]
    /\ UNCHANGED <<now, poolVars, bucketVars, clientVars, per_tool_rate_limits,
                   gatewayVars>>

\* limiter.allow() -> bucket.consume(): the caller gets the bucket's lock
AcquireBucket(c) ==
    /\ call[c].pc = "await"
    /\ LockFree(pk.heap[call[c].limiter].lock)
    /\ pk' = [pk EXCEPT !.heap[call[c].limiter].lock = c]
    /\ call' = [call EXCEPT ![c].pc = "consume"]
    /\ seen' = [seen EXCEPT !.last = NoAnswer]
    /\ UNCHANGED <<now, poolVars, bucketVars, clientVars, per_tool_rate_limits,
                   gatewayVars>>

\* lines 20-27, the end of the "async with" block, and allow returns
Returned(c) ==
    /\ call[c].pc = "consume"
    /\ LET h == call[c].limiter
           key == call[c].key
           b == pk.heap[h].bucket
           r == Consumed(b, now, TokenUnit)
       IN  /\ pk' = [pk EXCEPT !.heap[h] = [bucket |-> r.bucket,
                                             lock |-> Released(pk.heap[h].lock)]]
           /\ seen' = [seen EXCEPT
                 !.allowed[key] = IF r.allowed THEN @ + 1 ELSE @,
                 !.last = [key |-> key,
                           answer |-> IF r.allowed THEN "allowed" ELSE "denied",
                           short |-> Refilled(b, now) < TokenUnit]]
    /\ call' = [call EXCEPT ![c] = IdleCall]

\* allow returns to a caller that called it on its own
ConsumeReturn(c) ==
    /\ Returned(c)
    /\ UNCHANGED <<now, poolVars, bucketVars, clientVars, per_tool_rate_limits,
                   gatewayVars>>

LimiterRates == {1, TokenUnit}
LimiterBursts == {NoBurst, TokenUnit + 1}
NoOverrides == [k \in Keys |-> NoRate]

InitLimiter ==
    /\ NoPool
    /\ NewClient(FALSE)
    /\ NoGateway
    /\ now = 0
    /\ bucket = NoBucket
    /\ hist = NoHist
    \* server.py and test_per_tool_override pass per_tool=, the other test does not
    /\ \E rate_per_sec \in LimiterRates, burst \in LimiterBursts,
          kwargs \in {{}, {"per_tool"}} :
          /\ per_tool_rate_limits = IF "per_tool" \in kwargs
                                    THEN [NoOverrides EXCEPT ![1] = MaxRate]
                                    ELSE NoOverrides
          /\ pk = PerKeyRateLimiter(rate_per_sec, burst, kwargs)
    /\ call = [c \in Callers |-> IdleCall]
    /\ seen = FreshSeen

NextLimiter ==
    \/ \E c \in Callers, key \in Keys : Allow(c, key)
    \/ \E c \in Callers : Acquire(c)
    \/ \E c \in Callers : GetOrCreate(c)
    \/ \E c \in Callers : AcquireBucket(c)
    \/ \E c \in Callers : ConsumeReturn(c)
    \/ Tick

SpecLimiter == InitLimiter /\ [][NextLimiter]_vars

\* caller c runs on to its next await, or to the end of allow
StepCall(c) == Acquire(c) \/ GetOrCreate(c) \/ AcquireBucket(c) \/ ConsumeReturn(c)

\* the event loop runs every ready caller, and asyncio.Lock wakes its waiters
\* first come, first served
FairSpecLimiter == SpecLimiter /\ \A c \in Callers : SF_vars(StepCall(c))

\* ---------------------------------------------------------------- gateway
\* the tools of the server's routes: a tool's name is its rate-limit key
Tools == Keys

\* a route handler: "idle", "limit" (awaits rate_limiter.allow(tool_name)) or
\* "tool" (awaits the tool)
IdleRoute == [pc |-> "idle", tool |-> 0]

\* the response an invocation ended with
Response(c, tool, status_code, message) ==
    [caller |-> c, tool |-> tool, status_code |-> status_code, message |-> message]
NoResponse == Response(0, 0, 0, "")

\* MetricsRecorder()
MetricsRecorder ==
    [rate_limited |-> 0, tool_success |-> [t \in Tools |-> 0],
     tool_error |-> [t \in Tools |-> 0]]

\* incr_rate_limited()
IncrRateLimited(m) == [m EXCEPT !.rate_limited = @ + 1]

\* record_tool(tool, success=...)
RecordTool(m, tool, success) ==
    IF success THEN [m EXCEPT !.tool_success[tool] = @ + 1]
    ELSE [m EXCEPT !.tool_error[tool] = @ + 1]

LimitedNever(allowed) == FALSE

\* _enforce_rate_limit returns a response: "if not allowed"
Limited(allowed) == ~allowed

\* what the allow call of caller c, at its bucket, is about to return
Answer(c) == Consumed(pk.heap[call[c].limiter].bucket, now, TokenUnit).allowed

\* a route is called for a tool: its handler runs to
\* "await rate_limiter.allow(tool_name)"
Enforce(c, tool) ==
    /\ gateway.inv[c].pc = "idle"
    /\ gateway.calls < MaxCalls
    /\ Called(c, tool)
    /\ gateway' = [gateway EXCEPT !.inv[c] = [pc |-> "limit", tool |-> tool],
                                  !.calls = @ + 1,
                                  !.last = NoResponse]
    /\ UNCHANGED <<now, poolVars, bucketVars, clientVars, per_tool_rate_limits, pk,
                   metrics>>

\* allow returns to _enforce_rate_limit: a denial is counted and answered
\* with 429, otherwise the handler goes on to "await" its tool
EnforceReturn(c) ==
    /\ gateway.inv[c].pc = "limit"
    /\ Returned(c)
    /\ IF Limited(Answer(c))
       THEN /\ metrics' = IncrRateLimited(metrics)
            /\ gateway' = [gateway EXCEPT
                  !.inv[c] = IdleRoute,
                  !.last = Response(c, gateway.inv[c].tool, 429, "Rate limit exceeded")]
       ELSE /\ metrics' = metrics
            /\ gateway' = [gateway EXCEPT !.inv[c].pc = "tool",
                                          !.dispatched = @ + 1,
                                          !.last = NoResponse]
    /\ UNCHANGED <<now, poolVars, bucketVars, clientVars, per_tool_rate_limits>>

\* the tool returned its result, with or without an "error" entry:
\* _log_tool_result and the JSONResponse
ToolDone(c, success) ==
    /\ gateway.inv[c].pc = "tool"
    /\ metrics' = RecordTool(metrics, gateway.inv[c].tool, success)
    /\ gateway' = [gateway EXCEPT
          !.inv[c] = IdleRoute,
          !.last = Response(c, gateway.inv[c].tool, 200, "")]
    /\ UNCHANGED <<now, poolVars, bucketVars, clientVars, limiterVars>>

\* the server: its limiter, its recorder and no invocation yet; calls and
\* dispatched only observe the routes: the invocations received and the
\* tools invoked
InitGateway ==
    /\ NoPool
    /\ NewClient(FALSE)
    /\ now = 0
    /\ bucket = NoBucket
    /\ hist = NoHist
    /\ per_tool_rate_limits = NoOverrides
    /\ \E rate_per_sec \in LimiterRates, burst \in LimiterBursts :
          pk = PerKeyRateLimiter(rate_per_sec, burst, {})
    /\ call = [c \in Callers |-> IdleCall]
    /\ seen = FreshSeen
    /\ metrics = MetricsRecorder
    /\ gateway = [inv |-> [c \in Callers |-> IdleRoute], calls |-> 0,
                  dispatched |-> 0, last |-> NoResponse]

NextGateway ==
    \/ \E c \in Callers, tool \in Tools : Enforce(c, tool)
    \/ \E c \in Callers : Acquire(c)
    \/ \E c \in Callers : GetOrCreate(c)
    \/ \E c \in Callers : AcquireBucket(c)
    \/ \E c \in Callers : EnforceReturn(c)
    \/ \E c \in Callers, success \in BOOLEAN : ToolDone(c, success)
    \/ Tick

SpecGateway == InitGateway /\ [][NextGateway]_vars

\* ------------------------------------------------------ single-node mode
\* the bodies a node can answer with: provider codes and messages in either
\* case, a message alone or inside a longer one
Cases == {"upper", "lower"}
CodeWords ==
    {"invalid_address", "invalid_qortal_address", "invalid_recipient", "name_unknown",
     "block_unknown", "invalid_asset_id", "address_unknown", "unknown_address",
     "group_unknown", "invalid_public_key", "invalid_data", "other"}
IntWords == {"102", "401", "601", "124", "1101", "999"}
Codes ==
    {NoCode} \cup {StrCode(Txt(<<w>>, c)) : w \in CodeWords, c \in Cases}
             \cup {IntCode(w) : w \in IntWords} \cup {StrCode(U("102"))}
Phrases ==
    {<<"invalid", "address">>, <<"block", "unknown">>, <<"unknown", "address">>,
     <<"invalid", "public", "key">>, <<"invalid", "data">>, <<"block", "not", "found">>,
     <<"name_unknown">>, <<"invalid_data">>, <<"bad">>}
Messages ==
    {NoTxt} \cup {Txt(p, c) : p \in Phrases, c \in Cases}
            \cup {Txt(<<"the">> \o p \o <<"given">>, c) : p \in Phrases, c \in Cases}
ErrorStatuses == {400, 401, 403, 404, 500}
Responses ==
    {Resp(200, j, NoCode, NoTxt) : j \in {"bad", "null", "scalar", "dict", "list"}}
    \cup {Resp(st, j, NoCode, NoTxt) : st \in ErrorStatuses, j \in {"bad", "list"}}
    \cup {Resp(st, "dict", e, m) : st \in ErrorStatuses, e \in Codes, m \in Messages}

\* the request slots used when the whole client is modelled
ClientReqs == {1}

GetClientAnew(c) == [handle |-> "open", owns |-> TRUE, made |-> c.made + 1]

\* _get_client: the stored handle, created on first use; made only observes
\* the client: the handles it has created so far
GetClient(c) ==
    IF c.handle = "none" THEN [handle |-> "open", owns |-> TRUE, made |-> c.made + 1]
    ELSE c

SingleAttemptRetry(op) ==
    <<[url |-> 0, key |-> BuildHeaders(UseApiKey(op), TRUE)],
      [url |-> 0, key |-> BuildHeaders(UseApiKey(op), TRUE)]>>

\* the one GET of _request_single, to config.base_url, with its headers
SingleAttempt(op) == <<[url |-> 0, key |-> BuildHeaders(UseApiKey(op), TRUE)]>>

\* _request without a node pool, up to "await client.get"
SingleStart(r, op) ==
    /\ Len(entries) = 0
    /\ req[r].pc = "idle"
    /\ client' = GetClient(client)
    /\ req' = [req EXCEPT ![r] =
                 [IdleReq EXCEPT !.pc = "single", !.op = op, !.sent = SingleAttempt(op),
                                 !.hnds = <<GetClient(client).made>>]]
    /\ last' = NoLast
    /\ UNCHANGED <<now, entries, primary_url, cooldown_seconds, health_check_path,
                   api_key, bucketVars, limiterVars, closer, closes,
                   gatewayVars>>

\* client.get raised httpx.RequestError
SingleFailed(r) ==
    /\ req[r].pc = "single"
    /\ req' = [req EXCEPT ![r] = IdleReq]
    /\ last' = Finished([req[r] EXCEPT !.nfail = @ + 1], NodeUnreachable, NoResp, 0, NoTime)
    /\ UNCHANGED <<now, entries, primary_url, cooldown_seconds, health_check_path,
                   api_key, bucketVars, limiterVars, clientVars,
                   gatewayVars>>

\* client.get returned an HTTP response
SingleAnswered(r, response) ==
    /\ req[r].pc = "single"
    /\ req' = [req EXCEPT ![r] = IdleReq]
    /\ last' = Finished(req[r], ProcessResponse(response, ExpectDict(req[r].op),
                                                ExpectJson(req[r].op)),
                        response, 0, NoTime)
    /\ UNCHANGED <<now, entries, primary_url, cooldown_seconds, health_check_path,
                   api_key, bucketVars, limiterVars, clientVars,
                   gatewayVars>>

\* a client without a node pool (allow_public_fallback off, or one node only)
InitSingle ==
    /\ now = 0
    /\ entries = <<>>
    /\ primary_url = 0
    /\ cooldown_seconds = 0
    /\ health_check_path = FALSE
    /\ api_key \in BOOLEAN
    /\ req = [r \in Reqs |-> IdleReq]
    /\ last = NoLast
    /\ bucket = NoBucket
    /\ hist = NoHist
    /\ NoLimiter
    /\ NoGateway
    /\ \E injected \in BOOLEAN : NewClient(injected)

NextSingle ==
    \/ \E r \in ClientReqs, op \in Ops : SingleStart(r, op)
    \/ \E r \in ClientReqs : SingleFailed(r)
    \/ \E r \in ClientReqs :
          req[r].pc = "single" /\ \E response \in Responses : SingleAnswered(r, response)

SpecSingle == InitSingle /\ [][NextSingle]_vars

\* ---------------------------------------------------------- whole client
\* _request: one GET without a node pool, else one pass over the pool
Request(r, op) ==
    IF Len(entries) = 0 THEN SingleStart(r, op) ELSE StartRequest(r, op)

\* 401 answers of a pooled node, beside PoolResponses
Pool401Responses ==
    { Resp(401, "bad", NoCode, NoTxt),
      Resp(401, "dict", StrCode(U("invalid_address")), Txt(<<"invalid", "address">>, "lower")),
      Resp(401, "dict", IntCode("102"), NoTxt) }

InitClient == InitPool \/ InitSingle

NextClient ==
    \/ \E r \in ClientReqs, op \in Ops : Request(r, op)
    \/ \E r \in ClientReqs, outcome \in {"ok", "bad", "err"} : ProbeDone(r, outcome)
    \/ \E r \in ClientReqs : SendFailed(r)
    \/ \E r \in ClientReqs, response \in PoolResponses \cup Pool401Responses :
          SendAnswered(r, response)
    \/ \E r \in ClientReqs : SingleFailed(r)
    \/ \E r \in ClientReqs :
          req[r].pc = "single" /\ \E response \in Responses : SingleAnswered(r, response)
    \/ Tick

SpecClient == InitClient /\ [][NextClient]_vars

\* concurrent requests on one client, pooled or not, and no aclose call
NextHandles ==
    \/ \E r \in Reqs, op \in PoolOps : Request(r, op)
    \/ \E r \in Reqs, outcome \in {"ok", "bad", "err"} : ProbeDone(r, outcome)
    \/ \E r \in Reqs : SendFailed(r)
    \/ \E r \in Reqs, response \in PoolResponses : SendAnswered(r, response)
    \/ \E r \in Reqs : SingleFailed(r)
    \/ \E r \in Reqs, response \in PoolResponses : SingleAnswered(r, response)
    \/ Tick

SpecHandles == InitClient /\ [][NextHandles]_vars

\* -------------------------------------------------------------- shutdown
\* the first pool entry from position from on that stores a handle, 0 if none
NextStored(ents, from) ==
    LET stored == {j \in from..Len(ents) : ents[j].client}
    IN  IF stored = {} THEN 0 ELSE CHOOSE j \in stored : \A k \in stored : j <= k

DroppedNever(ents, i) == ents

\* entry.client = None
Dropped(ents, i) == [ents EXCEPT ![i].client = FALSE]

\* aclose call c from pool entry from on, up to its next await or its
\* return: the loop of NodePool.aclose over ents (no pool: no entry), then
\* the client's own handle; cs are the aclose calls per handle and n the
\* handles closed by this call so far
CloseFrom(c, ents, from, cs, n) ==
    LET j == NextStored(ents, from) IN
    /\ entries' = ents
    /\ client' = client
    /\ IF j # 0
       THEN /\ closer' = [closer EXCEPT
                             !.calls[c] = [pc |-> "entry", i |-> j, closed |-> n + 1]]
            /\ closes' = [cs EXCEPT ![j][ents[j].made] = @ + 1]
       ELSE IF client.handle # "none" /\ client.owns
       THEN /\ closer' = [closer EXCEPT
                             !.calls[c] = [pc |-> "own", i |-> 0, closed |-> n + 1]]
            /\ closes' = [cs EXCEPT ![0][client.made] = @ + 1]
       ELSE /\ closer' = [closer EXCEPT !.calls[c] = IdleClose, !.log = Append(@, n)]
            /\ closes' = cs

\* the aclose calls in flight
Closing == {c \in Closers : closer.calls[c].pc # "idle"}

\* QortalApiClient.aclose is called
Close(c) ==
    /\ closer.calls[c].pc = "idle"
    /\ Len(closer.log) + Cardinality(Closing) < MaxCloses
    /\ CloseFrom(c, entries, 1, closes, 0)
    /\ UNCHANGED <<now, primary_url, cooldown_seconds, health_check_path, api_key,
                   req, last, bucketVars, limiterVars,
                   gatewayVars>>

\* "await entry.client.aclose()" of call c returned: the entry forgets its
\* handle and the loop goes on
EntryClosed(c) ==
    /\ closer.calls[c].pc = "entry"
    /\ CloseFrom(c, Dropped(entries, closer.calls[c].i), closer.calls[c].i + 1,
                 closes, closer.calls[c].closed)
    /\ UNCHANGED <<now, primary_url, cooldown_seconds, health_check_path, api_key,
                   req, last, bucketVars, limiterVars,
                   gatewayVars>>

\* "await self._client.aclose()" of call c returned: self._client = None
OwnClosed(c) ==
    /\ closer.calls[c].pc = "own"
    /\ client' = [client EXCEPT !.handle = "none"]
    /\ closer' = [closer EXCEPT !.calls[c] = IdleClose,
                                !.log = Append(@, closer.calls[c].closed)]
    /\ UNCHANGED <<now, entries, primary_url, cooldown_seconds, health_check_path,
                   api_key, req, last, bucketVars, limiterVars, closes,
                   gatewayVars>>

\* requests and aclose calls made one after the other: a request starts
\* when no aclose call is in flight, aclose when no request is
NextShutdown ==
    \/ Closing = {} /\ \E r \in ClientReqs, op \in Ops : Request(r, op)
    \/ \E r \in ClientReqs, outcome \in {"ok", "bad", "err"} : ProbeDone(r, outcome)
    \/ \E r \in ClientReqs : SendFailed(r)
    \/ \E r \in ClientReqs, response \in PoolResponses : SendAnswered(r, response)
    \/ \E r \in ClientReqs : SingleFailed(r)
    \/ \E r \in ClientReqs, response \in PoolResponses : SingleAnswered(r, response)
    \/ (\A r \in ClientReqs : req[r].pc = "idle") /\ Closing = {} /\ Close(1)
    \/ \E c \in Closers : EntryClosed(c)
    \/ \E c \in Closers : OwnClosed(c)
    \/ Tick

SpecShutdown == InitClient /\ [][NextShutdown]_vars

\* ------------------------------------------- shutdown under concurrency
\* the handle the GET awaited by rec was issued on: its slot and which of
\* the slot's handles it is (0: the entry stored none when the candidate
\* was appended, or the handle was given to the constructor)
Using(rec) ==
    IF rec.pc = "single" THEN [s |-> 0, g |-> rec.hnds[1]]
    ELSE [s |-> rec.cands[rec.i], g |-> rec.hnds[rec.i]]

\* what the GET awaited by rec may raise beside httpx.RequestError: nothing
\* ("none") while aclose was not invoked on its handle
Raises(rec) ==
    IF rec.pc = "probe"
    THEN IF ~entries[rec.k].client \/ closes[rec.k][entries[rec.k].made] >= 1
         THEN "RuntimeError" ELSE "none"
    ELSE IF rec.pc \in {"send", "single"}
    THEN IF rec.pc = "send" /\ Using(rec).g = 0 THEN "AttributeError"
         ELSE IF Using(rec).g # 0 /\ closes[Using(rec).s][Using(rec).g] >= 1
         THEN "RuntimeError"
         ELSE "none"
    ELSE "none"

\* client.get on a closed handle (or on None) raised an exception that is
\* not an httpx.RequestError: no handler catches it, nothing is reported
\* and the request ends with it
Refused(r) ==
    /\ Raises(req[r]) # "none"
    /\ req' = [req EXCEPT ![r] = IdleReq]
    /\ last' = Finished(req[r], Err(Raises(req[r]), "", 0), NoResp, 0, NoTime)
    /\ UNCHANGED <<now, entries, primary_url, cooldown_seconds, health_check_path,
                   api_key, bucketVars, limiterVars, clientVars, gatewayVars>>

\* requests and aclose calls on one client, interleaved at their awaits
NextTeardown ==
    \/ \E r \in ClientReqs, op \in PoolOps : Request(r, op)
    \/ \E r \in ClientReqs, outcome \in {"ok", "bad", "err"} : ProbeDone(r, outcome)
    \/ \E r \in ClientReqs : SendFailed(r)
    \/ \E r \in ClientReqs, response \in PoolResponses : SendAnswered(r, response)
    \/ \E r \in ClientReqs : SingleFailed(r)
    \/ \E r \in ClientReqs, response \in PoolResponses : SingleAnswered(r, response)
    \/ \E r \in ClientReqs : Refused(r)
    \/ \E c \in Closers : (\A d \in Closers \ Closing : c <= d) /\ Close(c)
    \/ \E c \in Closers : EntryClosed(c)
    \/ \E c \in Closers : OwnClosed(c)
    \/ Tick

SpecTeardown == InitClient /\ [][NextTeardown]_vars

\* the awaited GET or probe of request r ends (every call has a timeout)
Respond(r) ==
    \/ SendFailed(r)
    \/ \E response \in PoolResponses : SendAnswered(r, response)
    \/ \E outcome \in {"ok", "bad", "err"} : ProbeDone(r, outcome)

\* ------------------------------------------------------------ properties
Range(seq) == {seq[j] : j \in 1..Len(seq)}
AllEntries == 1..Len(entries)
\* the requests in flight and the one that has just finished
Recs == {req[r] : r \in Reqs} \cup {last.rec}
\* a request whose get_candidates has returned
Scanned(rec) == rec.pc \in {"send", "raise"}
Answered == last.resp # NoResp

\* C1: in pooled mode X-API-KEY goes only on a request whose target is the
\* primary (first configured) URL, and is_trusted never changes its answer
\* for a URL.
C1_KeyOnlyToPrimary ==
    \A rec \in Recs : \A j \in 1..Len(rec.sent) :
        rec.sent[j].key => rec.sent[j].url = entries[1].base_url
C1_TrustStable ==
    \A url \in 0..NumNodes : IsTrusted(url)' = IsTrusted(url)
C1_CredentialOnlyToPrimary ==
    [](C1_KeyOnlyToPrimary) /\ [][C1_TrustStable]_vars
\* the primary failed with the key attached and the fallback is tried without it
C1_Witness ==
    \E rec \in Recs :
        /\ Len(rec.sent) >= 2
        /\ rec.sent[1].key /\ rec.sent[1].url = entries[1].base_url
        /\ ~rec.sent[2].key /\ rec.sent[2].url # entries[1].base_url
        /\ entries[1].last_failure # NoTime

\* C2: get_candidates never returns an empty list, and when every entry was
\* skipped (in cooldown or failed its probe) it returns exactly the primary.
C2_NeverEmpty ==
    \A rec \in Recs :
        Scanned(rec) =>
            /\ rec.pc = "send"
            /\ rec.cands # <<>>
            /\ (rec.excl = AllEntries => rec.cands = <<1>>)
\* every entry was skipped, some of them by a failed probe
C2_Witness ==
    \E r \in Reqs :
        /\ req[r].pc = "send"
        /\ req[r].excl = AllEntries
        /\ req[r].cands = <<1>>
        /\ \E k \in AllEntries : entries[k].last_health_check # NoTime

\* the entry that answered the request that has just finished
AnsweredBy == last.rec.cands[last.rec.i]
\* request r moved on to its next candidate, or gave up after its last one
MovedOn(r) ==
    /\ req[r].pc = "send"
    /\ \/ req'[r].pc = "send" /\ req'[r].i = req[r].i + 1
       \/ req'[r].pc = "idle" /\ last'.result = NodeUnreachable

\* C3: a pooled request returns the processed response of the first candidate
\* that answers; the candidates before it failed at transport level and had a
\* failure recorded, and the answering node's failure state is cleared.  With
\* the primary failing and the fallback answering 200 with a JSON body, the
\* request returns that body and the primary stays recorded as failed.
C3_InOrder ==
    /\ \A rec \in Recs :
        /\ Len(rec.sent) <= Len(rec.cands)
        /\ \A j \in 1..Len(rec.sent) : rec.sent[j].url = entries[rec.cands[j]].base_url
    /\ \A r \in Reqs :
        req[r].pc = "send" => Len(req[r].sent) = req[r].i /\ req[r].nfail = req[r].i - 1
C3_FirstAnswerWins ==
    Answered =>
        /\ last.result = ProcessResponse(last.resp, ExpectDict(last.rec.op),
                                         ExpectJson(last.rec.op))
        /\ last.url = entries[AnsweredBy].base_url
        /\ Len(last.rec.sent) = last.rec.i
        /\ last.rec.nfail = last.rec.i - 1
        /\ entries[AnsweredBy].last_failure = NoTime
        /\ last.rec.alone =>
              \A j \in 1..(last.rec.i - 1) :
                  entries[last.rec.cands[j]].last_failure # NoTime
C3_FailureRecorded ==
    \A r \in Reqs :
        MovedOn(r) => entries'[req[r].cands[req[r].i]].last_failure = now
C3_Failover ==
    [](C3_InOrder /\ C3_FirstAnswerWins) /\ [][C3_FailureRecorded]_vars
\* the primary failed, the fallback answered 200 with a JSON mapping
C3_Witness ==
    /\ Answered
    /\ last.rec.alone
    /\ last.rec.cands = <<1, 2>>
    /\ last.rec.i = 2
    /\ last.resp.status = 200
    /\ last.result = Val("dict")
    /\ entries[1].last_failure # NoTime

\* C4: a response that the processor turns into an error (status >= 400, or
\* a malformed success body) ends the request: no later candidate is
\* contacted, the error is raised, and the node is reported successful.
C4_ErrorEndsRequest ==
    (Answered /\ last.result.type = "error") =>
        /\ last.result = ProcessResponse(last.resp, ExpectDict(last.rec.op),
                                         ExpectJson(last.rec.op))
        /\ last.result.kind # "NodeUnreachable"
        /\ Len(last.rec.sent) = last.rec.i
        /\ entries[AnsweredBy].last_failure = NoTime
        /\ ~InCooldown(entries[AnsweredBy], now, cooldown_seconds)
\* a request moves to its next candidate only on a transport failure
C4_OnlyFailuresMoveOn ==
    \A r \in Reqs :
        (req[r].pc = "send" /\ req'[r].pc = "send" /\ req'[r].sent # req[r].sent) =>
            /\ req'[r].i = req[r].i + 1
            /\ entries'[req[r].cands[req[r].i]].last_failure = now
C4_NoRetryOnDomainError ==
    [](C4_ErrorEndsRequest) /\ [][C4_OnlyFailuresMoveOn]_vars
\* the primary failed, the fallback answered 401: Unauthorized is raised
C4_Witness ==
    /\ Answered
    /\ last.resp.status >= 400
    /\ last.result.kind = "Unauthorized"
    /\ last.rec.i = 2
    /\ ~last.rec.sent[2].key
C4_WitnessMalformed ==
    /\ Answered
    /\ last.resp.status = 200
    /\ last.result.type = "error"
    /\ last.rec.i < Len(last.rec.cands)

SomethingFinished == last.rec.pc # "idle"

\* C5: a pooled request makes one pass over its candidates: each candidate is
\* contacted at most once, in candidate order, so at most as many GETs as
\* configured nodes are issued and the request ends; it raises NodeUnreachable
\* exactly when every candidate was tried and every attempt failed at
\* transport level.
C5_AtMostOnceInOrder ==
    \A rec \in Recs :
        /\ \A j \in 1..Len(rec.sent) :
              j <= Len(rec.cands) /\ rec.sent[j].url = entries[rec.cands[j]].base_url
        /\ \A j, h \in 1..Len(rec.sent) : j # h => rec.sent[j].url # rec.sent[h].url
        /\ Len(rec.sent) <= Len(entries)
C5_UnreachableIffAllFailed ==
    SomethingFinished =>
        (last.result = NodeUnreachable <=>
            /\ Len(last.rec.sent) = Len(last.rec.cands)
            /\ last.rec.nfail = Len(last.rec.sent)
            /\ ~Answered)
\* the awaits a request can still make: probes of the entries left, then GETs
AwaitsLeft(rec) ==
    IF rec.pc = "probe" THEN 2 * Len(entries) - rec.k + 1
    ELSE IF rec.pc = "send" THEN Len(rec.cands) - rec.i + 1
    ELSE 0
\* an awaiting request can always be resumed, and each resumption uses up an await
C5_NeverStuck ==
    \A r \in Reqs : InFlight(req[r]) => ENABLED Respond(r)
C5_Progress ==
    \A r \in Reqs :
        (InFlight(req[r]) /\ [req'[r] EXCEPT !.alone = req[r].alone] # req[r]) =>
            AwaitsLeft(req'[r]) < AwaitsLeft(req[r])
C5_OnePass ==
    /\ [](C5_AtMostOnceInOrder /\ C5_UnreachableIffAllFailed /\ C5_NeverStuck)
    /\ [][C5_Progress]_vars
\* both configured nodes were tried once each and both failed
C5_Witness ==
    /\ last.result = NodeUnreachable
    /\ Len(last.rec.sent) = NumNodes
    /\ last.rec.nfail = NumNodes

\* request r called get_candidates in this step
Calls(r) == req[r].pc = "idle" /\ req'[r].pc # "idle"
\* the entries get_candidates of request r admitted in this step
Admitted(r) ==
    IF req[r].pc \in {"idle", "probe"} /\ req'[r].pc \in {"probe", "send"}
    THEN Range(req'[r].cands) \ Range(req[r].cands)
    ELSE {}
\* the primary was forced in because every entry was skipped
Forced(rec) == rec.cands = <<1>> /\ rec.excl = AllEntries
\* the entries get_candidates of request r examined in this step: from the
\* first one, or the one after the probed one, up to the next probe or the end
Examined(r) ==
    IF req[r].pc \in {"idle", "probe"} /\ req'[r].pc \in {"probe", "send"}
    THEN {n \in AllEntries :
            /\ n > req[r].k
            /\ req'[r].pc = "probe" => n < req'[r].k}
    ELSE {}

\* C6: while a failure of node A recorded at time t stands (no success since),
\* a get_candidates before t + cooldown_seconds omits A unless A is the primary
\* forced in because nothing is eligible; with no health-check path, a
\* get_candidates at any time >= t + cooldown_seconds includes A again.
C6_OmittedInCooldown ==
    \A r \in Reqs : \A n \in Admitted(r) :
        (/\ entries'[n].last_failure # NoTime
         /\ now < entries'[n].last_failure + cooldown_seconds)
            => n = 1 /\ Forced(req'[r])
C6_EligibleAfterCooldown ==
    \A r \in Reqs : \A n \in AllEntries :
        (/\ Calls(r)
         /\ ~health_check_path
         /\ entries[n].last_failure # NoTime
         /\ now >= entries[n].last_failure + cooldown_seconds)
            => n \in Range(req'[r].cands)
C6_Cooldown == [][C6_OmittedInCooldown /\ C6_EligibleAfterCooldown]_vars
\* no health-check path: the primary, failed less than cooldown_seconds ago, is
\* omitted while the fallback, failed cooldown_seconds ago or more, is tried
C6_Witness ==
    \E r \in Reqs :
        /\ ~health_check_path
        /\ req[r].pc = "send" /\ req[r].alone /\ req[r].i = 1
        /\ req[r].cands = <<2>> /\ req[r].excl = {1}
        /\ entries[1].last_failure # NoTime
        /\ now < entries[1].last_failure + cooldown_seconds
        /\ entries[2].last_failure # NoTime
        /\ now >= entries[2].last_failure + cooldown_seconds

\* C7: report_success clears the failure at once, however much of the cooldown
\* remains, and the node is admitted by the very next get_candidates.
C7_SuccessClears ==
    Answered => entries[AnsweredBy].last_failure = NoTime
C7_NextCandidates ==
    Answered =>
        LET s == Scan(1, <<>>, {}, entries)
        IN  \/ AnsweredBy \in Range(s.cands) /\ AnsweredBy \notin s.excl
            \/ ~s.done /\ s.k < AnsweredBy
C7_HealthyAdmitted ==
    \A r \in Reqs : \A n \in Examined(r) :
        entries[n].last_failure = NoTime => n \in Range(req'[r].cands)
C7_SuccessEndsCooldown ==
    [](C7_SuccessClears /\ C7_NextCandidates) /\ [][C7_HealthyAdmitted]_vars
\* a node answered within its cooldown window and a get_candidates now admits it
C7_Witness ==
    /\ Answered
    /\ last.lf_before # NoTime
    /\ now - last.lf_before < cooldown_seconds
    /\ LET s == Scan(1, <<>>, {}, entries)
       IN  s.done /\ AnsweredBy \in Range(s.cands) /\ AnsweredBy \notin s.excl

\* C8: for every rate >= 0 and capacity >= 0, after any consume(1) calls at
\* non-decreasing times, 0 <= tokens <= capacity.
C8_TokensWithinCapacity ==
    /\ bucket.rate >= 0 /\ bucket.capacity >= 0
    /\ 0 <= bucket.tokens
    /\ bucket.tokens <= bucket.capacity
    /\ bucket.timestamp <= now
\* a consume found more than the capacity accrued and was allowed from a full bucket
C8_Witness ==
    /\ hist.answer = "allowed"
    /\ hist.raw > bucket.capacity
    /\ bucket.tokens = bucket.capacity - TokenUnit

\* C9: in a window of length T starting at any reachable state at most
\* capacity + rate * T consume(1) calls are allowed; at most capacity when no
\* time elapses.
C9_RateBound ==
    hist.start # NoTime =>
        hist.count * TokenUnit <= bucket.capacity + bucket.rate * (now - hist.start)
\* a window opened after the burst was spent, in which refill alone let calls through
C9_Witness ==
    /\ hist.start > 0
    /\ hist.count >= 2
    /\ bucket.rate > 0
    /\ hist.count * TokenUnit + TokenUnit > bucket.capacity + bucket.rate * (now - hist.start)

\* C10: with capacity >= 1 token and rate > 0, the first consume(1) on a
\* fresh bucket is allowed, a consume(1) that finds fewer than one token after
\* refill is denied, and after a denial a consume(1) at least 1/rate later,
\* with no allowed consume in between, is allowed.
C10_Applies == bucket.capacity >= TokenUnit /\ bucket.rate > 0
C10_FirstAllowed == C10_Applies => hist.first # "denied"
C10_ShortDenied ==
    (C10_Applies /\ hist.answer # "none" /\ hist.found < TokenUnit)
        => hist.answer = "denied"
C10_AllowedAfterWait ==
    (/\ C10_Applies
     /\ now' = now /\ hist'.start = hist.start     \* the step is a consume
     /\ hist.denied_at # NoTime
     /\ (now - hist.denied_at) * bucket.rate >= TokenUnit)
        => hist'.answer = "allowed"
C10_AllowDenyAllow ==
    /\ [](C10_FirstAllowed /\ C10_ShortDenied)
    /\ [][C10_AllowedAfterWait]_vars
\* allow, deny at once, allow one tick later: rate = 1 token per tick, capacity = 1 token
C10_Witness ==
    /\ bucket.rate = TokenUnit /\ bucket.capacity = TokenUnit
    /\ hist.first = "allowed"
    /\ hist.answer = "allowed"
    /\ hist.after # NoTime
    /\ now = hist.after + 1

\* C11: for concurrent first allow(key) calls on an unseen key exactly one
\* bucket is created and stored before any consumption, every call consumes
\* from that stored bucket, and at most floor(capacity) of the racing calls
\* (capacity + rate * elapsed in general) are allowed.
Past(c) == call[c].pc \in {"await", "consume"}
C11_OneBucketPerKey ==
    \A k \in Keys :
        /\ seen.created[k] <= 1
        /\ seen.created[k] = 1 <=> pk.limiters[k] # 0
        /\ seen.created[k] = 0 => seen.allowed[k] = 0
C11_SameBucket ==
    \A c \in Callers :
        Past(c) => /\ pk.limiters[call[c].key] # 0
                   /\ call[c].limiter = pk.limiters[call[c].key]
C11_Allowance ==
    \A k \in Keys :
        seen.born[k] # NoTime =>
            seen.allowed[k] * TokenUnit <= pk.burst + pk.rate * (now - seen.born[k])
C11_SingleFlight ==
    pk.state = "ok" => C11_OneBucketPerKey /\ C11_SameBucket /\ C11_Allowance
\* two first calls raced on one key: one was allowed, the other waits at the
\* same instant for the same, now empty, bucket of capacity 1.5 tokens
C11_Witness ==
    /\ pk.state = "ok"
    /\ \E c, d \in Callers :
          /\ c # d
          /\ call[c].pc = "idle" /\ call[d].pc = "await"
          /\ seen.last.answer = "allowed" /\ seen.last.key = call[d].key
          /\ seen.created[call[d].key] = 1
          /\ seen.allowed[call[d].key] = 1
          /\ seen.born[call[d].key] = now
          /\ pk.heap[call[d].limiter].bucket.capacity = TokenUnit + 1
          /\ pk.heap[call[d].limiter].bucket.tokens < TokenUnit

\* C12: a limiter given override rates applies them: the bucket created for
\* a key with an override has the override rate, and a key without one gets
\* the default rate and capacity.
C12_RateOf(k) ==
    IF per_tool_rate_limits[k] # NoRate THEN per_tool_rate_limits[k] ELSE pk.rate
C12_PerKeyOverride ==
    /\ pk.state # "TypeError"
    /\ \A k \in Keys :
          pk.limiters[k] # 0 =>
              /\ pk.heap[pk.limiters[k]].bucket.rate = C12_RateOf(k)
              /\ per_tool_rate_limits[k] = NoRate =>
                    pk.heap[pk.limiters[k]].bucket.capacity = pk.burst
\* what the code does do: every bucket has the default rate and capacity
C12_DefaultOnly ==
    pk.state = "ok" =>
        \A k \in Keys :
            pk.limiters[k] # 0 =>
                /\ pk.heap[pk.limiters[k]].bucket.rate = pk.rate
                /\ pk.heap[pk.limiters[k]].bucket.capacity = pk.burst

\* C13: distinct keys have distinct buckets, allow(k1) never changes the
\* tokens or the timestamp of another key's bucket, and a call is denied only
\* when its own key's bucket holds fewer than one token.
BucketOf(k) == pk.heap[pk.limiters[k]].bucket
C13_DistinctBuckets ==
    pk.state = "ok" =>
        \A k1, k2 \in Keys :
            (k1 # k2 /\ pk.limiters[k1] # 0) => pk.limiters[k1] # pk.limiters[k2]
C13_OwnBucketDecides ==
    (pk.state = "ok" /\ seen.last.answer = "denied") =>
        /\ seen.last.short
        /\ BucketOf(seen.last.key).tokens < TokenUnit
C13_OthersUntouched ==
    pk.state = "ok" =>
        \A k \in Keys :
            pk.limiters[k] # 0 =>
                /\ pk'.limiters[k] = pk.limiters[k]
                /\ pk'.heap[pk.limiters[k]].bucket # BucketOf(k) =>
                      /\ seen'.last.answer # "none"
                      /\ seen'.last.key = k
                      /\ \E c \in Callers : call[c].pc = "consume" /\ call[c].key = k
                                             /\ call'[c].pc = "idle"
C13_Independent ==
    /\ [](C13_DistinctBuckets /\ C13_OwnBucketDecides)
    /\ [][C13_OthersUntouched]_vars
\* one key's bucket is exhausted and, at the same instant, the first call for
\* the other key is allowed
C13_Witness ==
    /\ pk.state = "ok"
    /\ \E k1, k2 \in Keys :
          /\ k1 # k2
          /\ pk.limiters[k1] # 0 /\ pk.limiters[k2] # 0
          /\ seen.allowed[k1] >= 1
          /\ BucketOf(k1).tokens < TokenUnit
          /\ BucketOf(k1).timestamp = now
          /\ seen.last.answer = "allowed" /\ seen.last.key = k2
          /\ seen.allowed[k2] = 1

\* C14: every allow call returns true or false without waiting for tokens to
\* refill; no caller holds the limiter lock and a bucket lock together, and no
\* deadlock is reachable.
HoldsLimiterLock(c) == pk.lock = c
HoldsBucketLock(c) == \E h \in 1..Len(pk.heap) : pk.heap[h].lock = c
C14_LocksApart ==
    pk.state = "ok" =>
        \A c \in Callers :
            /\ ~(HoldsLimiterLock(c) /\ HoldsBucketLock(c))
            /\ HoldsLimiterLock(c) <=> call[c].pc = "locked"
            /\ HoldsBucketLock(c) <=> call[c].pc = "consume"
            /\ call[c].pc = "consume" => pk.heap[call[c].limiter].lock = c
\* a call in flight can run on at the present time, or waits for a lock whose
\* holder can
C14_NoDeadlock ==
    pk.state = "ok" =>
        \A c \in Callers :
            call[c].pc # "idle" =>
                \/ ENABLED StepCall(c)
                \/ /\ call[c].pc = "enter"
                   /\ pk.lock \in Callers /\ ENABLED StepCall(pk.lock)
                \/ /\ call[c].pc = "await"
                   /\ pk.heap[call[c].limiter].lock \in Callers
                   /\ ENABLED StepCall(pk.heap[call[c].limiter].lock)
StepsLeft(rec) ==
    CASE rec.pc = "enter" -> 4
      [] rec.pc = "locked" -> 3
      [] rec.pc = "await" -> 2
      [] rec.pc = "consume" -> 1
      [] OTHER -> 0
\* every step of a call in flight brings its return nearer, and the call
\* returns at the time it took the bucket's lock, with an answer
C14_Progress ==
    pk.state = "ok" =>
        \A c \in Callers :
            (call[c].pc # "idle" /\ call'[c] # call[c]) =>
                /\ StepsLeft(call'[c]) = StepsLeft(call[c]) - 1
                /\ now' = now
                /\ call'[c].pc = "idle" => seen'.last.answer \in {"allowed", "denied"}
C14_Returns == \A c \in Callers : (call[c].pc # "idle") ~> (call[c].pc = "idle")
C14_NeverBlocks ==
    /\ [](C14_LocksApart /\ C14_NoDeadlock)
    /\ [][C14_Progress]_vars
    /\ C14_Returns
\* a call is denied while the other caller waits for the same key's bucket:
\* the denial returned at once, with the bucket still short of a token
C14_Witness ==
    /\ pk.state = "ok"
    /\ seen.last.answer = "denied"
    /\ BucketOf(seen.last.key).timestamp = now
    /\ \E c \in Callers : call[c].pc = "await" /\ call[c].key = seen.last.key
                          /\ ENABLED AcquireBucket(c)

\* C15: a response with status 401 yields Unauthorized for every body and
\* every expected shape, in single-node and in pooled mode.
Unauthorized401 == Err("Unauthorized", "Unauthorized or API key required.", 401)
C15_401IsUnauthorized ==
    last.resp.status = 401 =>
        /\ last.rec.pc \in {"single", "send"}
        /\ last.result = Unauthorized401
\* a raw-text call got a 401 whose body carries INVALID_ADDRESS
C15_Witness ==
    /\ last.rec.pc = "single"
    /\ ~ExpectJson(last.rec.op)
    /\ last.resp.status = 401
    /\ last.resp.error = StrCode(Txt(<<"invalid_address">>, "upper"))
    /\ last.result.kind = "Unauthorized"

\* C16: for every provider code, message and status >= 400 other than 401
\* the classifier returns the kind and fixed message of the first matching
\* rule of the ten-rule table; a 404 or 403 matched by none of rules 1-7 is
\* classified by its status.
Classified ==
    /\ last.rec.pc = "single"
    /\ last.resp.status >= 400 /\ last.resp.status # 401
    /\ last.resp.json = "dict"
C16_TenRuleTable ==
    Classified =>
        last.result = TenRules(last.resp.error, last.resp.status, last.resp.message)
\* C16, amended: the classifier is the eleven-rule table: rule 3 also takes
\* the message "block not found", and an INVALID_DATA rule comes before the
\* status rules.
C16_ElevenRuleTable ==
    Classified =>
        last.result = ElevenRules(last.resp.error, last.resp.status, last.resp.message)
\* a 403 whose body carries the code INVALID_DATA is Generic, not Unauthorized
C16_Witness ==
    /\ Classified
    /\ last.resp.status = 403
    /\ last.resp.error = StrCode(Txt(<<"invalid_data">>, "lower"))
    /\ last.resp.message = NoTxt
    /\ last.result = Err("Generic", "Qortal API error.", 403)

\* C17: for a response with status < 400 a raw-text call returns the body
\* text without decoding; otherwise the call returns the decoded JSON value
\* exactly when decoding succeeded and (no mapping is required or the value is
\* a mapping), and fails with Generic in every other case.
Succeeded ==
    /\ last.rec.pc = "single"
    /\ last.resp.status # 0 /\ last.resp.status < 400
ShapeError == Err("Generic", "Unexpected response from node.", last.resp.status)
C17_ShapeHandling ==
    Succeeded =>
        IF ~ExpectJson(last.rec.op) THEN last.result = Val("text")
        ELSE IF /\ last.resp.json # "bad"
                /\ (~ExpectDict(last.rec.op) \/ last.resp.json = "dict")
        THEN last.result = Val(Decoded(last.resp.json))
        ELSE last.result = ShapeError
\* what the code does: a decoded null fails like an undecodable body
C17_NullIsUnexpected ==
    Succeeded =>
        IF ~ExpectJson(last.rec.op) THEN last.result = Val("text")
        ELSE IF /\ last.resp.json \notin {"bad", "null"}
                /\ (~ExpectDict(last.rec.op) \/ last.resp.json = "dict")
        THEN last.result = Val(last.resp.json)
        ELSE last.result = ShapeError

\* C18: single-node mode issues exactly one HTTP GET per request, and a
\* transport failure is raised as NodeUnreachable: no second attempt, no
\* other error kind.
SingleRecs == {rec \in Recs : rec.pc = "single"}
C18_OneGetThenUnreachable ==
    /\ \A rec \in SingleRecs : Len(rec.sent) = 1 /\ rec.cands = <<>>
    /\ last.rec.pc = "single" =>
          /\ last.rec.nfail \in {0, 1}
          /\ last.rec.nfail = 1 <=> last.result = NodeUnreachable
          /\ last.rec.nfail = 1 <=> last.resp = NoResp
          /\ last.rec.nfail = 0 =>
                last.result = ProcessResponse(last.resp, ExpectDict(last.rec.op),
                                              ExpectJson(last.rec.op))
\* the one GET of a single-node request failed in transport
C18_Witness ==
    /\ last.rec.pc = "single"
    /\ last.rec.nfail = 1
    /\ Len(last.rec.sent) = 1
    /\ last.result.kind = "NodeUnreachable"

\* C19: in single-node mode every request of any typed operation carries
\* X-API-KEY if an API key is configured.
C19_KeyOnEveryRequest ==
    \A rec \in SingleRecs : api_key => \A j \in 1..Len(rec.sent) : rec.sent[j].key
\* C19, amended: a single-node request carries X-API-KEY exactly when an API
\* key is configured and the operation asks for it (the admin operations);
\* the node's trust is not consulted.
AdminOps == {"fetch_node_status"}
C19_KeyOnAdminRequests ==
    \A rec \in SingleRecs :
        \A j \in 1..Len(rec.sent) : rec.sent[j].key <=> (api_key /\ rec.op \in AdminOps)
\* with a key configured, the GET of /blocks/height went out without it
C19_Witness ==
    /\ api_key
    /\ last.rec.pc = "single" /\ last.rec.op = "fetch_block_height"
    /\ ~last.rec.sent[1].key
    /\ last.result.type = "value"

\* C20: shutdown is idempotent.  After any sequence of requests, a close
\* call closes every handle the client created exactly once and leaves none
\* of them stored; a close call made when no created handle is stored
\* returns at once, closes nothing and leaves the client's state as it was,
\* so the state after two closes in sequence is the state after one.
\* the slots that store a handle the client created
Kept ==
    {i \in 1..Len(entries) : entries[i].client}
        \cup (IF client.handle # "none" /\ client.owns THEN {0} ELSE {})
CloseReturns == Len(closer.log)' = Len(closer.log) + 1
\* the handles slot s has stored so far: the last of them is the one it
\* stores, if it stores one
Made(s) ==
    IF s = 0 THEN client.made ELSE IF s <= Len(entries) THEN entries[s].made ELSE 0
C20_ClosedAtMostOnce == \A s \in Slots, g \in Gens : closes[s][g] <= 1
C20_ForgottenClosedOnce == \A s \in Kept : s \notin Kept' => closes[s][Made(s)] = 1
C20_NothingLeft ==
    CloseReturns =>
        /\ Kept' = {}
        /\ \A s \in Slots, g \in Gens : closes'[s][g] = (IF g <= Made(s) THEN 1 ELSE 0)
C20_RepeatIsNoOp ==
    (Kept = {} /\ closer'.log # closer.log) =>
        /\ Closing = {}
        /\ closer' = [closer EXCEPT !.log = Append(@, 0)]
        /\ UNCHANGED <<now, poolVars, bucketVars, limiterVars, client, closes>>
C20_IdempotentShutdown ==
    /\ [](C20_ClosedAtMostOnce)
    /\ [][C20_ForgottenClosedOnce /\ C20_NothingLeft /\ C20_RepeatIsNoOp]_vars
\* a request was answered, the first close closed the handles of two pool
\* nodes and the second close, made right after it, closed nothing
C20_Witness ==
    /\ Len(closer.log) = 2 /\ closer.log[1] >= 2 /\ closer.log[2] = 0
    /\ last.result.type = "value"
    /\ Kept = {}

\* C21: with no shutdown, under any interleaving of concurrent requests and
\* health probes at most one connection handle is ever created for each
\* configured node (and for the client without a pool), a stored handle is
\* never replaced, and every request holds that one handle for each node it
\* tries.
C21_AtMostOneMade ==
    /\ \A k \in AllEntries : entries[k].made <= 1
    /\ client.made <= 1
C21_Reused ==
    \A rec \in Recs : \A j \in 1..Len(rec.hnds) :
        IF rec.pc = "single"
        THEN client.handle = "open" /\ rec.hnds[j] = client.made
        ELSE /\ rec.hnds[j] = 1
             /\ HandleOf(entries[rec.cands[j]]) = 1
C21_NeverReplaced ==
    /\ \A k \in AllEntries : entries[k].client =>
            HandleOf(entries'[k]) = HandleOf(entries[k])
    /\ client.handle = "open" => client' = client
C21_OneHandlePerNode ==
    [](C21_AtMostOneMade /\ C21_Reused) /\ [][C21_NeverReplaced]_vars
\* two requests are in flight on the same node, which was probed before
C21_Witness ==
    \E k \in AllEntries :
        /\ entries[k].last_health_check # NoTime
        /\ \A r \in Reqs : /\ req[r].pc = "send"
                            /\ req[r].cands[req[r].i] = k
                            /\ req[r].hnds[req[r].i] = 1

\* C22: the gateway calls allow(tool) once for every tool invocation and
\* before the tool; when allow returns false the tool is not invoked, the
\* response is HTTP 429 "Rate limit exceeded", rate_limited grows by exactly
\* one and no tool_success or tool_error counter changes.
\* an allow call of a route returns false in this step
DeniedNow(c) ==
    /\ gateway.inv[c].pc = "limit" /\ call[c].pc = "consume"
    /\ call'[c].pc = "idle"
    /\ seen'.last.answer = "denied"
C22_DenialAnswered ==
    \A c \in Callers : DeniedNow(c) =>
        /\ gateway'.last = Response(c, gateway.inv[c].tool, 429, "Rate limit exceeded")
        /\ gateway'.inv[c].pc = "idle"
        /\ gateway'.dispatched = gateway.dispatched
        /\ metrics'.rate_limited = metrics.rate_limited + 1
        /\ metrics'.tool_success = metrics.tool_success
        /\ metrics'.tool_error = metrics.tool_error
\* rate_limited and the tools invoked change in no other way
C22_OnlyOnDenial ==
    /\ metrics'.rate_limited # metrics.rate_limited => \E c \in Callers : DeniedNow(c)
    /\ gateway'.dispatched # gateway.dispatched =>
          \E c \in Callers : /\ gateway.inv[c].pc = "limit"
                             /\ gateway'.inv[c].pc = "tool"
                             /\ seen'.last.answer = "allowed"
\* every invocation made one allow call: it was denied, its tool was invoked,
\* or it is still waiting for allow
C22_OncePerInvocation ==
    /\ gateway.calls = metrics.rate_limited + gateway.dispatched
                         + Cardinality({c \in Callers : gateway.inv[c].pc = "limit"})
    /\ \A c \in Callers : (gateway.inv[c].pc = "limit") = (call[c].pc # "idle")
C22_GatewayDenial ==
    [](C22_OncePerInvocation) /\ [][C22_DenialAnswered /\ C22_OnlyOnDenial]_vars
\* an invocation was just denied with 429 after an earlier one of the same
\* tool had been served
C22_Witness ==
    /\ gateway.last.status_code = 429
    /\ metrics.rate_limited = 1
    /\ metrics.tool_success[gateway.last.tool] = 1

\* C23: get_candidates probes a node exactly when the scan reaches it with a
\* failure recorded, its cooldown over and a health-check path configured,
\* and probes it once; a probe answered with a status < 400 clears the
\* failure and admits the node to this round, while a transport failure or a
\* status >= 400 re-marks the failure at the probe's time and leaves the node
\* out of this round.  Nodes with no failure recorded and nodes in cooldown
\* are never probed.
Due(k) ==
    /\ entries[k].last_failure # NoTime
    /\ ~InCooldown(entries[k], now, cooldown_seconds)
    /\ health_check_path
\* the probe request r awaited has ended in this step
ProbeEnded(r) == req[r].pc = "probe" /\ last'.probe.r = r
\* get_candidates of request r runs in this step, from entry ScanFrom(r) on
Scanning(r) == (req[r].pc = "idle" /\ req'[r].pc # "idle") \/ ProbeEnded(r)
ScanFrom(r) == IF req[r].pc = "probe" THEN req[r].k + 1 ELSE 1
ProbeBegins(r) ==
    /\ req'[r].pc = "probe"
    /\ req[r].pc = "probe" => req'[r].k # req[r].k
C23_ProbedIffDue ==
    \A r \in Reqs :
        /\ Scanning(r) =>
              LET due == {k \in ScanFrom(r)..Len(entries) : Due(k)}
              IN  IF due = {} THEN req'[r].pc = "send"
                  ELSE /\ req'[r].pc = "probe"
                       /\ req'[r].k \in due /\ \A k \in due : req'[r].k <= k
        /\ ProbeBegins(r) => Scanning(r)
        /\ (req[r].pc = "probe" /\ (req'[r].pc # "probe" \/ req'[r].k # req[r].k))
              => /\ ProbeEnded(r)
                 /\ last'.probe.k = req[r].k
                 /\ last'.probe.outcome \in {"ok", "bad", "err"}
C23_Cleared ==
    \A r \in Reqs : ProbeEnded(r) =>
        LET k == req[r].k
        IN  IF last'.probe.outcome = "ok"
            THEN entries'[k].last_failure = NoTime /\ k \in Range(req'[r].cands)
            ELSE entries'[k].last_failure = now
C23_Omitted ==
    \A r \in Reqs : ProbeEnded(r) =>
        (last'.probe.outcome # "ok" => req[r].k \notin Range(req'[r].cands))
\* the node whose probe failed is a candidate of this round only as the
\* primary that is forced in because no entry was admitted
C23_OmittedUnlessForced ==
    \A r \in Reqs : ProbeEnded(r) =>
        (last'.probe.outcome # "ok"
            => \/ req[r].k \notin Range(req'[r].cands)
               \/ /\ req[r].k = 1 /\ req'[r].cands = <<1>>
                  /\ req'[r].excl = AllEntries)
C23_ProbeOnSelection ==
    [][C23_ProbedIffDue /\ C23_Cleared /\ C23_Omitted]_vars
C23_ProbeOnSelectionForced ==
    [][C23_ProbedIffDue /\ C23_Cleared /\ C23_OmittedUnlessForced]_vars
\* the probe of the second node failed with a status >= 400: the node is
\* re-marked and left out, and the request goes to the primary
C23_Witness ==
    /\ last.probe.outcome = "bad"
    /\ last.probe.k = 2
    /\ entries[2].last_failure = now
    /\ req[last.probe.r].pc = "send"
    /\ req[last.probe.r].cands = <<1>>
    /\ 2 \in req[last.probe.r].excl

\* C24: every list get_candidates returns is a duplicate-free subsequence of
\* the configured node order (primary first, then the fallbacks in their
\* order), and the configured entries are never added, removed or reordered
\* after the pool is built.
C24_Subsequence ==
    \A rec \in Recs :
        /\ \A j \in 1..Len(rec.cands) : rec.cands[j] \in AllEntries
        /\ \A i, j \in 1..Len(rec.cands) : i < j => rec.cands[i] < rec.cands[j]
C24_ConfiguredOrder ==
    \A k \in AllEntries : entries[k].base_url = k
C24_EntriesFixed ==
    /\ Len(entries') = Len(entries)
    /\ \A k \in AllEntries : entries'[k].base_url = entries[k].base_url
C24_CandidateOrder ==
    [](C24_Subsequence /\ C24_ConfiguredOrder) /\ [][C24_EntriesFixed]_vars
\* one request holds the whole configured order, another a list that starts
\* at a fallback because the primary is in cooldown
C24_Witness ==
    \E r, q \in Reqs :
        /\ req[r].pc = "send" /\ req[r].cands = <<1, 2>>
        /\ req[q].pc = "send" /\ req[q].cands = <<2>>
        /\ entries[1].last_failure # NoTime

\* C25: a denied consume deducts nothing: it leaves tokens at the refilled
\* value min(capacity, tokens + elapsed * rate); an allowed consume deducts
\* the amount from that value; either way the timestamp becomes the current
\* time, so that a consume made at the time of the previous one is credited
\* nothing.
ConsumeStep == now' = now /\ hist'.start = hist.start
RefillNow == Min(bucket.capacity, bucket.tokens + (now - bucket.timestamp) * bucket.rate)
C25_DeniedKeepsRefill ==
    (ConsumeStep /\ hist'.answer = "denied") =>
        /\ RefillNow < TokenUnit
        /\ bucket'.tokens = RefillNow
C25_AllowedDeducts ==
    (ConsumeStep /\ hist'.answer = "allowed") =>
        /\ RefillNow >= TokenUnit
        /\ bucket'.tokens = RefillNow - TokenUnit
C25_Stamped ==
    ConsumeStep =>
        /\ bucket'.timestamp = now
        /\ bucket'.rate = bucket.rate /\ bucket'.capacity = bucket.capacity
C25_NotCreditedTwice ==
    (ConsumeStep /\ hist.calls > 0 /\ bucket.timestamp = now) =>
        hist'.raw = bucket.tokens
C25_DeniedDeductsNothing ==
    [][/\ C25_DeniedKeepsRefill /\ C25_AllowedDeducts
       /\ C25_Stamped /\ C25_NotCreditedTwice]_vars
\* a denied consume kept the part of a token refilled so far, and stamped
\* the bucket
C25_Witness ==
    /\ hist.answer = "denied"
    /\ hist.calls = 2
    /\ bucket.tokens > 0 /\ bucket.tokens < TokenUnit
    /\ bucket.tokens = hist.found
    /\ bucket.timestamp = now /\ now > 0

\* C26: a pooled request tries exactly the candidates it computed at its
\* start, in that order: what other in-flight requests report about those
\* nodes between the computation and a dispatch neither removes a node from
\* the list nor adds one to it.
\* the candidate list of a request that goes on is the list it had
C26_ListKept ==
    \A r \in Reqs :
        (req[r].pc = "send" /\ req'[r].pc # "idle") =>
            /\ req'[r].pc = "send"
            /\ req'[r].cands = req[r].cands
            /\ req'[r].i \in {req[r].i, req[r].i + 1}
\* the GETs issued so far went to the first candidates of the list, in order
C26_TriedInOrder ==
    \A rec \in Recs :
        Scanned(rec) =>
            /\ Len(rec.sent) = rec.i /\ rec.i <= Len(rec.cands)
            /\ \A j \in 1..rec.i : rec.sent[j].url = entries[rec.cands[j]].base_url
\* a request gives up only after the last candidate of its list failed
C26_WholeList ==
    last.result = NodeUnreachable =>
        /\ last.rec.i = Len(last.rec.cands)
        /\ last.rec.nfail = Len(last.rec.cands)
C26_BestEffort ==
    [](C26_TriedInOrder /\ C26_WholeList) /\ [][C26_ListKept]_vars
\* a request is dispatched to its second candidate although another request
\* has put that node into cooldown since the list was computed
C26_Witness ==
    \E r \in Reqs :
        /\ req[r].pc = "send" /\ req[r].cands = <<1, 2>> /\ req[r].i = 2
        /\ ~req[r].alone
        /\ InCooldown(entries[2], now, cooldown_seconds)

\* C27: report_failure(url) and report_success(url) change only the
\* last_failure of the one entry whose URL is url; every other entry, every
\* handle and every last_health_check stays as it was, and with a URL of no
\* entry the whole pool state stays as it was.
Reported == last'.report.kind # "none"
C27_OneFieldOfOneEntry ==
    Reported =>
        /\ Len(entries') = Len(entries)
        /\ \A k \in AllEntries :
              IF entries[k].base_url = last'.report.url
              THEN entries'[k] =
                      [entries[k] EXCEPT !.last_failure =
                          IF last'.report.kind = "failure" THEN now ELSE NoTime]
              ELSE entries'[k] = entries[k]
        /\ UNCHANGED <<primary_url, cooldown_seconds, health_check_path>>
C27_UnknownUrl ==
    (Reported /\ \A k \in AllEntries : entries[k].base_url # last'.report.url) =>
        UNCHANGED <<entries, primary_url, cooldown_seconds, health_check_path>>
C27_ReportFrame == [][C27_OneFieldOfOneEntry /\ C27_UnknownUrl]_vars
\* a failure was reported for the second node, which holds a handle and a
\* health-check time, while the primary keeps an older failure
C27_Witness ==
    /\ last.report = [kind |-> "failure", url |-> 2]
    /\ entries[2].last_failure = now /\ now > 0
    /\ entries[2].client /\ entries[2].last_health_check = 0
    /\ entries[1].last_failure = 0

\* C28: the error raised for a response with status >= 400 does not depend
\* on the shape the call expects: a raw-text call, a mapping call and a
\* sequence-or-scalar call raise the same error for the same status and
\* body, and a body that does not decode is classified with no code and no
\* message.
ErrorAnswer == last.rec.pc = "single" /\ last.resp.status >= 400
C28_SameForEveryShape ==
    ErrorAnswer =>
        \A expect_dict, expect_json \in BOOLEAN :
            ProcessResponse(last.resp, expect_dict, expect_json) = last.result
C28_Undecodable ==
    (ErrorAnswer /\ last.resp.status # 401 /\ last.resp.json = "bad") =>
        last.result = MapError(NoCode, last.resp.status, NoTxt)
C28_ShapeIndependent == C28_SameForEveryShape /\ C28_Undecodable
\* a raw-text call was answered 404 with a body naming ADDRESS_UNKNOWN, and
\* raised AddressNotFound
C28_Witness ==
    /\ ErrorAnswer
    /\ ~ExpectJson(last.rec.op)
    /\ last.resp.status = 404
    /\ last.resp.error = StrCode(U("address_unknown"))
    /\ last.result.kind = "AddressNotFound"

\* C29: under any interleaving of close calls with each other and with a
\* request in flight on the same client, no connection handle has its close
\* invoked more than once, and no GET of a request is issued on a handle
\* whose close was already invoked.
\* request r issues a GET in this step
Dispatches(r) ==
    /\ req'[r].pc \in {"send", "single"}
    /\ Len(req'[r].sent) > Len(req[r].sent)
C29_ClosedOnce == \A s \in Slots, g \in Gens : closes[s][g] <= 1
C29_NoneOnClosed ==
    \A r \in ClientReqs :
        Dispatches(r) =>
            \/ Using(req'[r]).g = 0
            \/ closes[Using(req'[r]).s][Using(req'[r]).g] = 0
C29_SafeShutdown == [](C29_ClosedOnce) /\ [][C29_NoneOnClosed]_vars

\* C30: no permanent denial.  For a PerKeyRateLimiter constructed with a
\* positive rate and no explicit burst (the capacity is the rate), every
\* bucket it holds allows again after some finite idle time: there is a
\* wait after which the next allow of its key returns true.
\* the bucket b, left alone for d ticks from now, then allows one token
AllowsAfter(b, d) == Consumed(b, now + d, TokenUnit).allowed
C30_NoPermanentDenial ==
    (pk.state = "ok" /\ pk.burst = pk.rate) =>
        \A h \in 1..Len(pk.heap) : \E d \in 0..MaxIdle : AllowsAfter(pk.heap[h].bucket, d)
====
